---------------------------- MODULE Spec2Model ----------------------------
(***************************************************************************)
(* A model of the sounding analysis engine of src/src/calc/thermo.js.      *)
(*                                                                         *)
(* Numbers.  The engine computes in IEEE doubles; the model computes in    *)
(* fixed point over the integers:                                          *)
(*    pressure      hPa                                                    *)
(*    height        m                                                      *)
(*    temperature   1/100 degree (Celsius or Kelvin)                       *)
(*    wind          direction in degrees, speed in knots, u/v in 1/100 m/s *)
(*    energy        1/100 J/kg                                             *)
(*    logarithms    scaled by 10^4                                         *)
(* A JavaScript number that may also be null, NaN or +-Infinity is a       *)
(* record [t, v]: see Num, NaN, Null, Inf.                                 *)
(***************************************************************************)
EXTENDS Integers, Sequences, FiniteSets, TLC

VARIABLES
    levels,     \* the profile handed to the operation (SoundingLevel[])
    parcel,     \* the parcel path handed to / produced for the integrator
    arg,        \* the remaining inputs of the operation under check
    pc,         \* position: which operation runs next, or "done"
    i,          \* calcCAPE_CIN: loop index
    cape,       \* calcCAPE_CIN: local cape
    cin,        \* calcCAPE_CIN: local cin
    lfc,        \* calcCAPE_CIN: local lfc
    el,         \* calcCAPE_CIN: local el
    ret         \* the value the operation returned

vars == <<levels, parcel, arg, pc, i, cape, cin, lfc, el, ret>>

-----------------------------------------------------------------------------
(* JavaScript values *)

Num(x) == [t |-> "num", v |-> x]
NaN == [t |-> "nan", v |-> 0]
Null == [t |-> "null", v |-> 0]
\* +Infinity is Inf(1), -Infinity is Inf(-1)
Inf(s) == [t |-> "inf", v |-> s]

IsNum(x) == x.t = "num"
IsNaN(x) == x.t = "nan"
IsNull(x) == x.t = "null"
IsInf(x) == x.t = "inf"

Sign(x) == IF x > 0 THEN 1 ELSE IF x < 0 THEN -1 ELSE 0
Abs(x) == IF x < 0 THEN -x ELSE x
\* nearest integer to a / b (b # 0), halves away from zero
RoundDiv(a, b) ==
    LET n == Abs(a)
        d == Abs(b)
        r == n % d
        q == (n \div d) + (IF r >= d - r THEN 1 ELSE 0)
    IN  IF Sign(a) * Sign(b) < 0 THEN -q ELSE q

\* a / b in doubles: x/0 is +-Infinity, 0/0 is NaN
JsDiv(a, b) ==
    IF b # 0 THEN Num(RoundDiv(a, b))
    ELSE IF a = 0 THEN NaN
    ELSE Inf(Sign(a))

-----------------------------------------------------------------------------
(* Math.log, Math.exp and Math.pow in fixed point *)

RECURSIVE Pow2(_)
Pow2(k) == IF k <= 0 THEN 1 ELSE 2 * Pow2(k - 1)

\* the k with 2^k <= x < 2^(k+1), for x >= 1
RECURSIVE Log2Floor(_)
Log2Floor(x) == IF x < 2 THEN 0 ELSE 1 + Log2Floor(x \div 2)

\* 2 atanh(y) * 10^5 for y * 10^5 given with its square y2 * 10^5, the series
\* 2 y (1 + y^2/3 + y^4/5 + y^6/7 + y^8/9)
Atanh2(y, y2) ==
    2 * y + (2 * y * ((y2 * (33333 + (y2 * (20000 + (y2 * (14286 + (y2 * 11111)
        \div 100000)) \div 100000)) \div 100000)) \div 100000)) \div 100000

\* ln(x / b) * 10^5 for b <= x < 2 b
LnMantissa(x, b) ==
    Atanh2(((x - b) * 100000) \div (x + b),
           ((((x - b) * 100000) \div (x + b)) * (((x - b) * 100000) \div (x + b))) \div 100000)

\* Math.log(x) * 10^4 for an integer x >= 1: ln x = k ln 2 + ln(x / 2^k)
Ln(x) == RoundDiv(Log2Floor(x) * 69315 + LnMantissa(x, Pow2(Log2Floor(x))), 10)

\* e^r * 10^4 for 0 <= r < ln 2 * 10^4, the series cut at r^7 (Horner)
ExpSeries(r) ==
    10000 + RoundDiv(r * (10000 + RoundDiv(r * (10000 + RoundDiv(r * (10000
        + RoundDiv(r * (10000 + RoundDiv(r * (10000 + RoundDiv(r * (10000
        + RoundDiv(r, 7)), 60000)), 50000)), 40000)), 30000)), 20000)), 10000)

\* e * 2^k
Scale2(e, k) == IF k >= 0 THEN e * Pow2(k) ELSE RoundDiv(e, Pow2(-k))

\* Math.exp(x / 10^4) * 10^4 for an integer x: e^x = 2^k e^r, 0 <= r < ln 2
Exp(x) ==
    Scale2(ExpSeries(RoundDiv(x * 10 - ((x * 10) \div 69315) * 69315, 10)),
           (x * 10) \div 69315)

\* Math.pow(a / b, y / 10^4) * 10^4 for integers a, b >= 1
PowRatio(a, b, y) == Exp(RoundDiv((Ln(a) - Ln(b)) * y, 10000))

-----------------------------------------------------------------------------
(* Thermodynamic primitives *)

\* gas constant for dry air, J/kg/K * 100
Rd == 28704
\* gas constant for water vapor, J/kg/K * 10
Rv == 4615
\* specific heat at constant pressure, J/kg/K * 10
Cp == 10057
\* latent heat of vaporization, J/kg / 1000
Lv == 2501
\* gravity, m/s^2 * 10^5
g == 980665
\* Rd / Rv * 10^5
eps == (Rd * 10000) \div Rv

\* Celsius to Kelvin and back, both in 1/100 degree
CtoK(c) == c + 27315
KtoC(k) == k - 27315

\* knots to 1/100 m/s
ktsToMs(kts) == RoundDiv(kts * 51444, 1000)

\* saturation vapor pressure (Bolton 1980) in 1/100 hPa; tc in 1/100 degree C
es(tc) == RoundDiv(6112 * Exp(RoundDiv(176700 * tc, tc + 24350)), 100000)

\* 1000 eps e / (p - e) in 1/100 g/kg (10^-5 kg/kg), e and p in 1/100 hPa
mixingRatioOf(e, p) == RoundDiv(eps * e, p - e)

\* mixing ratio in 1/100 g/kg (10^-5 kg/kg); tc in 1/100 degree C, p in
\* 1/100 hPa.  Defined where p # es(tc) (the code returns +-Infinity there).
mixingRatio(tc, p) == mixingRatioOf(es(tc), p)

\* 800 X / (800 + X ln(tk / tdk)) + 56 in 1/100 K, for X = tdk - 56 in
\* 1/100 K and lnRatio = ln(tk / tdk) * 10^4
lclTempOf(X, lnRatio) == RoundDiv(8000 * X, 8000 + RoundDiv(lnRatio * X, 100000)) + 5600

\* temperature at the LCL (1/100 K), Bolton:
\* 1 / (1/(tdk - 56) + ln(tk/tdk)/800) + 56 = 800 X / (800 + X ln(tk/tdk)) + 56
lclTemp(tc, tdc) == lclTempOf(CtoK(tdc) - 5600, Ln(CtoK(tc)) - Ln(CtoK(tdc)))

\* LCL pressure (hPa), Poisson: p * (tlcl / tk)^(1 / 0.2854)
lclPressure(tc, tdc, p) ==
    RoundDiv(p * PowRatio(lclTemp(tc, tdc), CtoK(tc), 35039), 10000)

\* dry adiabat: temperature (1/100 C) at p2 of a parcel of tc at p1;
\* the exponent is Rd / Cp
dryAdiabat(tc, p1, p2) ==
    KtoC(RoundDiv(CtoK(tc) * PowRatio(p2, p1, RoundDiv(Rd * 1000, Cp)), 10000))

\* gamma_m = (Rd t + Lv w) / (Cp + Lv^2 w eps / (Rd t^2)) in 1/100 K, for t in
\* 1/100 K and w in 10^-5 kg/kg; Lv^2 eps / Rd = 1.35537 * 10^10
gammaM(t, w) ==
    RoundDiv((RoundDiv(Rd * t, 10000) + RoundDiv(Lv * w, 100)) * 1000,
             Cp + 10 * RoundDiv(135537 * w, RoundDiv(t * t, 10000)))

\* gamma_m of saturated air at t (1/100 K) and p (1/100 hPa)
gammaAt(t, p) == gammaM(t, mixingRatio(KtoC(t), p))

\* one Euler step of the moist adiabat on st = <<t, p>>: t in 1/1000 K, p and
\* dp in 1/1000 hPa; t += gamma_m / p * dp, p += dp
moistStep(st, dp) ==
    <<st[1] + RoundDiv(gammaAt(RoundDiv(st[1], 10), RoundDiv(st[2], 10)) * 10 * dp, st[2]),
      st[2] + dp>>

RECURSIVE moistLoop(_, _, _)

\* the state after the second part of the iterations, given the state `mid`
\* after the first part (the test makes mid a value before the rest starts)
moistRest(mid, dp, n) == IF mid \in Int \X Int THEN moistLoop(mid, dp, n) ELSE mid

\* n iterations of the loop body, one after the other: the first half of
\* them, then the rest (grouped so only to keep the evaluation shallow)
moistLoop(st, dp, n) ==
    IF n <= 0 THEN st
    ELSE IF n = 1 THEN moistStep(st, dp)
    ELSE moistRest(moistLoop(st, dp, n \div 2), dp, n - (n \div 2))

\* the default of moistAdiabat's parameter `steps`
DefaultSteps == 200

\* moist adiabat: temperature (1/100 C) at pEnd of a saturated parcel of tc
\* at pStart, by `steps` Euler steps
moistAdiabat(tc, pStart, pEnd, steps) ==
    KtoC(RoundDiv(moistLoop(<<CtoK(tc) * 10, pStart * 1000>>,
                            RoundDiv((pEnd - pStart) * 1000, steps), steps)[1], 10))

-----------------------------------------------------------------------------
(* Vertical interpolation *)

\* the bracket test with strict inequalities: a target at a level's own
\* value is missed
BracketsStrict(a, b, t) == (a > t /\ b < t) \/ (a < t /\ b > t)

\* the adjacent pair (a, b) brackets t, inclusive, ascending or descending
Brackets(a, b, t) == (a >= t /\ b <= t) \/ (a <= t /\ b >= t)

\* index of the first pair (k, k+1), from pair `from` on, whose `field`
\* brackets t; 0 when there is none
RECURSIVE FirstBracket(_, _, _, _)
FirstBracket(lv, field, t, from) ==
    IF from > Len(lv) - 1 THEN 0
    ELSE IF Brackets(lv[from][field], lv[from + 1][field], t) THEN from
    ELSE FirstBracket(lv, field, t, from + 1)

\* va + frac * (vb - va) with frac = (lt - la) / (lb - la), 0/0 = NaN
lerp(va, vb, la, lb, lt) ==
    IF lb = la THEN NaN ELSE Num(va + RoundDiv((lt - la) * (vb - va), lb - la))

\* a[field] + frac * (b[field] - a[field]) with
\* frac = (ln t - ln a.pressure) / (ln b.pressure - ln a.pressure); frac is
\* 0/0 = NaN when the bracketing pair shares its pressure
interpPair(a, b, t, field) ==
    lerp(a[field], b[field], Ln(a.pressure), Ln(b.pressure), Ln(t))

\* the value at pair k, or null when no pair was found (k = 0)
interpAtPair(lv, k, t, field) ==
    IF k = 0 THEN Null ELSE interpPair(lv[k], lv[k + 1], t, field)

\* interpolate `field` at pressure pTarget (a JavaScript number), linearly in
\* log-pressure; Null when no pair brackets pTarget.  Every comparison with
\* NaN is false, so a NaN target finds no pair.
interpAtPressure(lv, pTarget, field) ==
    IF ~IsNum(pTarget) THEN Null
    ELSE interpAtPair(lv, FirstBracket(lv, "pressure", pTarget.v, 1), pTarget.v, field)

heightAtPressure(lv, pTarget) == interpAtPressure(lv, pTarget, "height")

\* a.pressure + frac * (b.pressure - a.pressure) with
\* frac = (target - a.height) / (b.height - a.height), 0/0 = NaN when the
\* bracketing pair shares its height
pressurePair(a, b, target) ==
    IF b.height = a.height THEN NaN
    ELSE Num(a.pressure + RoundDiv((target - a.height) * (b.pressure - a.pressure),
                                   b.height - a.height))

\* the pressure at pair k, or the last level's when no pair was found (k = 0)
pressureAtPair(lv, k, target) ==
    IF k = 0 THEN Num(lv[Len(lv)].pressure) ELSE pressurePair(lv[k], lv[k + 1], target)

\* pressure (a JavaScript number) at hTarget metres above the first level,
\* linear in height; the last level's pressure when no pair brackets it
pressureAtHeight(lv, hTarget) ==
    pressureAtPair(lv, FirstBracket(lv, "height", lv[1].height + hTarget, 1),
                   lv[1].height + hTarget)

-----------------------------------------------------------------------------
(* Parcel lifter *)

\* parcelTemp, but every point on the dry adiabat
parcelTempAllDry(tSfc, pSfc, pLCL, tLCL, p) == dryAdiabat(tSfc, pSfc, p)

\* the parcel temperature at level pressure p: dry adiabat from the origin
\* at or below the LCL, moist adiabat from the LCL above it
parcelTemp(tSfc, pSfc, pLCL, tLCL, p) ==
    IF p >= pLCL THEN dryAdiabat(tSfc, pSfc, p)
    ELSE moistAdiabat(tLCL, pLCL, p, DefaultSteps)

\* the loop of liftParcel over the levels from index k on
RECURSIVE liftLoop(_, _, _, _, _, _)
liftLoop(lv, k, tSfc, pSfc, pLCL, tLCL) ==
    IF k > Len(lv) THEN <<>>
    ELSE IF lv[k].pressure > pSfc THEN liftLoop(lv, k + 1, tSfc, pSfc, pLCL, tLCL)
    ELSE <<[pressure |-> lv[k].pressure,
            temp |-> parcelTemp(tSfc, pSfc, pLCL, tLCL, lv[k].pressure)]>>
         \o liftLoop(lv, k + 1, tSfc, pSfc, pLCL, tLCL)

\* what liftParcel returns, the LCL known
liftFrom(lv, tSfc, pSfc, pLCL, tLCL) ==
    [parcel |-> liftLoop(lv, 1, tSfc, pSfc, pLCL, tLCL), pLCL |-> pLCL, tLCL |-> tLCL]

liftParcel(tSfc, tdSfc, pSfc, lv) ==
    liftFrom(lv, tSfc, pSfc, lclPressure(tSfc, tdSfc, pSfc), KtoC(lclTemp(tSfc, tdSfc)))

-----------------------------------------------------------------------------
(* Buoyancy integrator *)

\* q, or one unit of the sign of a / b when q rounded a non-zero a / b to 0
KeepSign(q, a, b) == IF q = 0 /\ a # 0 THEN Sign(a) * Sign(b) ELSE q

\* a / b with its sign kept: a non-zero quotient of doubles is never 0
ScaleDiv(a, b) == KeepSign(RoundDiv(a, b), a, b)

\* (parcelT - envT) / envT * 10^5, temperatures in 1/100 K
Buoyancy(parcelT, envT) == ScaleDiv((parcelT - envT) * 100000, envT)

\* g * avgBuoy * dz in 1/100 J/kg, where s = buoy1 + buoy2 (each * 10^5)
Energy(s, dz) ==
    IF s * dz = 0 THEN 0
    ELSE ScaleDiv(ScaleDiv(s * dz, 2000) * RoundDiv(g, 100), 1000)

\* the layer energy of a pair from the four interpolated values (JavaScript
\* numbers): skip is the `continue` on a null; energy is a JavaScript number
energyOf(parcelT1, parcelT2, envT1, envT2, z1, z2) ==
    [skip |-> IsNull(envT1) \/ IsNull(envT2) \/ IsNull(z1) \/ IsNull(z2),
     z1 |-> z1,
     z2 |-> z2,
     energy |->
        IF IsNull(envT1) \/ IsNull(envT2) \/ IsNull(z1) \/ IsNull(z2) THEN Null
        ELSE IF IsNaN(envT1) \/ IsNaN(envT2) \/ IsNaN(z1) \/ IsNaN(z2) THEN NaN
        ELSE Num(Energy(Buoyancy(parcelT1, CtoK(envT1.v)) + Buoyancy(parcelT2, CtoK(envT2.v)),
                        z2.v - z1.v))]

\* the body of the loop of calcCAPE_CIN up to `energy`, for the path pair
\* (pt1, pt2)
pairEnergy(lv, pt1, pt2) ==
    energyOf(CtoK(pt1.temp), CtoK(pt2.temp),
             interpAtPressure(lv, Num(pt1.pressure), "temp"),
             interpAtPressure(lv, Num(pt2.pressure), "temp"),
             heightAtPressure(lv, Num(pt1.pressure)),
             heightAtPressure(lv, Num(pt2.pressure)))

\* x + y on JavaScript numbers (no infinities arise here)
JsAdd(x, y) == IF IsNum(x) /\ IsNum(y) THEN Num(x.v + y.v) ELSE NaN
\* Math.max(0, x) and Math.min(0, x)
JsMax0(x) == IF IsNum(x) THEN Num(IF x.v > 0 THEN x.v ELSE 0) ELSE NaN
JsMin0(x) == IF IsNum(x) THEN Num(IF x.v < 0 THEN x.v ELSE 0) ELSE NaN

\* an {pressure, height} object
Obj(p, z) == [t |-> "obj", pressure |-> p, height |-> z]

\* accumulate, but every positive pair moves lfc
accumulateLastLfc(acc, pt1, pt2, pe) ==
    IF pe.skip THEN acc
    ELSE IF IsNum(pe.energy) /\ pe.energy.v > 0
         THEN [cape |-> JsAdd(acc.cape, pe.energy),
               cin |-> acc.cin,
               lfc |-> Obj(pt1.pressure, pe.z1.v),
               el |-> Obj(pt2.pressure, pe.z2.v)]
         ELSE [acc EXCEPT !.cin = IF IsNull(acc.lfc) THEN JsAdd(acc.cin, pe.energy) ELSE @]

\* accumulate, but negative energy is added to cin above the LFC too
accumulateAllCin(acc, pt1, pt2, pe) ==
    IF pe.skip THEN acc
    ELSE IF IsNum(pe.energy) /\ pe.energy.v > 0
         THEN [cape |-> JsAdd(acc.cape, pe.energy),
               cin |-> acc.cin,
               lfc |-> IF IsNull(acc.lfc) THEN Obj(pt1.pressure, pe.z1.v) ELSE acc.lfc,
               el |-> Obj(pt2.pressure, pe.z2.v)]
         ELSE [acc EXCEPT !.cin = JsAdd(acc.cin, pe.energy)]

\* accumulate, but only the first positive pair sets el
accumulateFirstEl(acc, pt1, pt2, pe) ==
    IF pe.skip THEN acc
    ELSE IF IsNum(pe.energy) /\ pe.energy.v > 0
         THEN [cape |-> JsAdd(acc.cape, pe.energy),
               cin |-> acc.cin,
               lfc |-> IF IsNull(acc.lfc) THEN Obj(pt1.pressure, pe.z1.v) ELSE acc.lfc,
               el |-> IF IsNull(acc.el) THEN Obj(pt2.pressure, pe.z2.v) ELSE acc.el]
         ELSE [acc EXCEPT !.cin = IF IsNull(acc.lfc) THEN JsAdd(acc.cin, pe.energy) ELSE @]

\* the accumulation of one pair: pe is the pair's energy record
accumulate(acc, pt1, pt2, pe) ==
    IF pe.skip THEN acc
    ELSE IF IsNum(pe.energy) /\ pe.energy.v > 0
         THEN [cape |-> JsAdd(acc.cape, pe.energy),
               cin |-> acc.cin,
               lfc |-> IF IsNull(acc.lfc) THEN Obj(pt1.pressure, pe.z1.v) ELSE acc.lfc,
               el |-> Obj(pt2.pressure, pe.z2.v)]
         ELSE [acc EXCEPT !.cin = IF IsNull(acc.lfc) THEN JsAdd(acc.cin, pe.energy) ELSE @]

\* one iteration of the loop of calcCAPE_CIN on the locals
\* acc = [cape, cin, lfc, el], for the path pair (pt1, pt2)
capeStep(acc, lv, pt1, pt2) == accumulate(acc, pt1, pt2, pairEnergy(lv, pt1, pt2))

\* the value calcCAPE_CIN returns from its locals
capeReturn(acc) ==
    [cape |-> JsMax0(acc.cape), cin |-> JsMin0(acc.cin), lfc |-> acc.lfc, el |-> acc.el]

capeInit == [cape |-> Num(0), cin |-> Num(0), lfc |-> Null, el |-> Null]

RECURSIVE capeLoop(_, _, _, _)
capeLoop(acc, lv, path, k) ==
    IF k > Len(path) - 1 THEN acc
    ELSE capeLoop(capeStep(acc, lv, path[k], path[k + 1]), lv, path, k + 1)

calcCAPE_CIN(lv, path) == capeReturn(capeLoop(capeInit, lv, path, 1))

-----------------------------------------------------------------------------
(* Parcel selectors *)

\* theta-e in 1/100 K (simplified Bolton) from tk (1/100 K), the LCL
\* temperature tl (1/100 K), the mixing ratio w (10^-5 kg/kg) and p (hPa):
\* theta = tk (1000 / p)^(0.2854 (1 - 0.28 w)),
\* thetaE = theta exp((3.376 / tl - 0.00254) 1000 w (1 + 0.81 w))
thetaEOf(tk, tl, w, p) ==
    RoundDiv(RoundDiv(tk * PowRatio(1000, p, 2854 - RoundDiv(79912 * w, 10000000)), 10000)
             * Exp(RoundDiv(RoundDiv((RoundDiv(337600000, tl) - 2540) * w, 10000)
                            * (100000 + RoundDiv(81 * w, 100)), 100000)),
             10000)

thetaE(tc, tdc, p) == thetaEOf(CtoK(tc), lclTemp(tc, tdc), mixingRatio(tdc, p * 100), p)

\* the loop of mixedLayerAvg, but it runs to the top of the profile
RECURSIVE mlLoopWhole(_, _, _, _, _)
mlLoopWhole(lv, k, sfcP, topP, acc) ==
    IF k > Len(lv) THEN acc
    ELSE mlLoopWhole(lv, k + 1, sfcP, topP,
                     <<acc[1] + lv[k].temp, acc[2] + lv[k].dewpoint, acc[3] + 1>>)

\* the loop of mixedLayerAvg from level k on; acc = <<tSum, tdSum, count>>
RECURSIVE mlLoop(_, _, _, _, _)
mlLoop(lv, k, sfcP, topP, acc) ==
    IF k > Len(lv) \/ lv[k].pressure < topP THEN acc
    ELSE IF lv[k].pressure > sfcP THEN mlLoop(lv, k + 1, sfcP, topP, acc)
    ELSE mlLoop(lv, k + 1, sfcP, topP,
                <<acc[1] + lv[k].temp, acc[2] + lv[k].dewpoint, acc[3] + 1>>)

\* what mixedLayerAvg returns from the sums
mlReturn(lv, acc) ==
    IF acc[3] = 0 THEN [temp |-> lv[1].temp, dewpoint |-> lv[1].dewpoint]
    ELSE [temp |-> RoundDiv(acc[1], acc[3]), dewpoint |-> RoundDiv(acc[2], acc[3])]

\* mean temperature and dewpoint of the lowest `depth` hPa
mixedLayerAvg(lv, depth) ==
    mlReturn(lv, mlLoop(lv, 1, lv[1].pressure, lv[1].pressure - depth, <<0, 0, 0>>))

RECURSIVE muLoop(_, _, _, _, _)

\* the test at level k with `>=`: the last level of greatest theta-e wins
muPickLast(lv, k, topP, maxThetaE, muLevel, te) ==
    IF te >= maxThetaE THEN muLoop(lv, k + 1, topP, te, lv[k])
    ELSE muLoop(lv, k + 1, topP, maxThetaE, muLevel)

\* the test `te > maxThetaE` at level k and the rest of the loop
muPick(lv, k, topP, maxThetaE, muLevel, te) ==
    IF te > maxThetaE THEN muLoop(lv, k + 1, topP, te, lv[k])
    ELSE muLoop(lv, k + 1, topP, maxThetaE, muLevel)

\* the loop of mostUnstableParcel from level k on
muLoop(lv, k, topP, maxThetaE, muLevel) ==
    IF k > Len(lv) \/ lv[k].pressure < topP THEN muLevel
    ELSE muPick(lv, k, topP, maxThetaE, muLevel,
                thetaE(lv[k].temp, lv[k].dewpoint, lv[k].pressure))

\* the level of greatest theta-e in the lowest 300 hPa, the first one on a
\* tie; maxThetaE starts at -Infinity, here below every theta-e
mostUnstableParcel(lv) == muLoop(lv, 1, lv[1].pressure - 300, -1, lv[1])

-----------------------------------------------------------------------------
(* Kinematics *)

\* sin * 10^4 of an angle r * 10^-4 rad in [0, pi/2], r2 = r^2 * 10^-4: the
\* series r (1 - r^2/6 (1 - r^2/20 (1 - r^2/42 (1 - r^2/72))))
SinSeries(r, r2) ==
    RoundDiv(r * (10000 - RoundDiv(r2 * (10000 - RoundDiv(r2 * (10000
        - RoundDiv(r2 * (10000 - RoundDiv(r2, 72)), 420000)), 200000)), 60000)), 10000)

SinRad(r) == SinSeries(r, RoundDiv(r * r, 10000))

\* sin * 10^4 of x degrees, 0 <= x <= 90
SinQuadrant(x) == SinRad(RoundDiv(x * 174533, 1000))

\* sin * 10^4 of x degrees, 0 <= x < 360
SinTurn(x) ==
    IF x <= 90 THEN SinQuadrant(x)
    ELSE IF x <= 180 THEN SinQuadrant(180 - x)
    ELSE IF x <= 270 THEN -SinQuadrant(x - 180)
    ELSE -SinQuadrant(360 - x)

\* Math.sin and Math.cos * 10^4 of d degrees
Sin(d) == SinTurn(d % 360)

Cos(d) == SinTurn((d + 90) % 360)

\* the greatest r in lo .. hi with r * r <= n
RECURSIVE SqrtBetween(_, _, _)
SqrtBetween(n, lo, hi) ==
    IF lo >= hi THEN lo
    ELSE IF ((lo + hi + 1) \div 2) * ((lo + hi + 1) \div 2) <= n
         THEN SqrtBetween(n, (lo + hi + 1) \div 2, hi)
         ELSE SqrtBetween(n, lo, ((lo + hi + 1) \div 2) - 1)

\* Math.sqrt, to the unit below
Sqrt(n) == SqrtBetween(n, 0, 46340)

\* x - y on JavaScript numbers
JsSub(x, y) == IF IsNum(x) /\ IsNum(y) THEN Num(x.v - y.v) ELSE NaN

\* (u, v) in 1/100 m/s of a wind from `dir` degrees at `spd` knots, both
\* JavaScript numbers
windComponents(dir, spd) ==
    IF IsNum(dir) /\ IsNum(spd)
    THEN [u |-> Num(RoundDiv(-ktsToMs(spd.v) * Sin(dir.v), 10000)),
          v |-> Num(RoundDiv(-ktsToMs(spd.v) * Cos(dir.v), 10000))]
    ELSE [u |-> NaN, v |-> NaN]

\* { mag, u: du, v: dv }
shearVector(du, dv) ==
    [mag |-> IF IsNum(du) /\ IsNum(dv) THEN Num(Sqrt(du.v * du.v + dv.v * dv.v)) ELSE NaN,
     u |-> du,
     v |-> dv]

\* top - bot
shearBetween(bot, top) == shearVector(JsSub(top.u, bot.u), JsSub(top.v, bot.v))

\* bulkShear from the four interpolated values
shearOf(dirBot, spdBot, dirTop, spdTop) ==
    IF IsNull(dirBot) \/ IsNull(spdBot) \/ IsNull(dirTop) \/ IsNull(spdTop)
    THEN [mag |-> Num(0), u |-> Num(0), v |-> Num(0)]
    ELSE shearBetween(windComponents(dirBot, spdBot), windComponents(dirTop, spdTop))

\* bulkShear from the two pressures
shearAt(lv, pBot, pTop) ==
    shearOf(interpAtPressure(lv, pBot, "windDir"), interpAtPressure(lv, pBot, "windSpd"),
            interpAtPressure(lv, pTop, "windDir"), interpAtPressure(lv, pTop, "windSpd"))

\* bulk wind shear between two heights (m above the first level)
bulkShear(lv, hBot, hTop) ==
    shearAt(lv, pressureAtHeight(lv, hBot), pressureAtHeight(lv, hTop))

\* -x on JavaScript numbers
JsNeg(x) == IF IsNum(x) THEN Num(-x.v) ELSE IF IsInf(x) THEN Inf(-x.v) ELSE x

\* x * y / scale on JavaScript numbers
JsMul(x, y, scale) ==
    IF IsNum(x) /\ IsNum(y) THEN Num(RoundDiv(x.v * y.v, scale))
    ELSE IF IsNaN(x) \/ IsNaN(y) THEN NaN
    ELSE IF Sign(x.v) * Sign(y.v) = 0 THEN NaN
    ELSE Inf(Sign(x.v) * Sign(y.v))

\* x / y * scale on JavaScript numbers
JsQuot(x, y, scale) ==
    IF IsNum(x) /\ IsNum(y) THEN JsDiv(x.v * scale, y.v)
    ELSE IF IsNaN(x) \/ IsNaN(y) THEN NaN
    ELSE IF IsInf(x) /\ IsInf(y) THEN NaN
    ELSE IF IsInf(y) THEN Num(0)
    ELSE Inf(x.v * (IF y.v < 0 THEN -1 ELSE 1))

\* Math.round(x / unit): to the nearest integer, halves upward
JsRound(x, unit) == IF IsNum(x) THEN Num((2 * x.v + unit) \div (2 * unit)) ELSE x

\* the loop of meanWind from level k on; acc = <<uSum, vSum, wSum>>; pTop is
\* a JavaScript number and `lev.pressure < pTop` is false when it is NaN
RECURSIVE windLoop(_, _, _, _, _)

\* the body of the loop of meanWind for a level that is not skipped
windAdd(lv, k, pBot, pTop, acc, w) ==
    windLoop(lv, k + 1, pBot, pTop,
             <<acc[1] + w.u.v * lv[k].pressure, acc[2] + w.v.v * lv[k].pressure,
               acc[3] + lv[k].pressure>>)

windLoop(lv, k, pBot, pTop, acc) ==
    IF k > Len(lv) THEN acc
    ELSE IF lv[k].pressure > pBot \/ (IsNum(pTop) /\ lv[k].pressure < pTop.v)
         THEN windLoop(lv, k + 1, pBot, pTop, acc)
         ELSE windAdd(lv, k, pBot, pTop, acc,
                      windComponents(Num(lv[k].windDir), Num(lv[k].windSpd)))

\* what meanWind returns from the sums
windReturn(acc) ==
    IF acc[3] = 0 THEN [u |-> Num(0), v |-> Num(0)]
    ELSE [u |-> Num(RoundDiv(acc[1], acc[3])), v |-> Num(RoundDiv(acc[2], acc[3]))]

\* pressure-weighted mean wind of the levels with pTop <= pressure <= pBot
meanWind(lv, pBot, pTop) == windReturn(windLoop(lv, 1, pBot, pTop, <<0, 0, 0>>))

\* right and left mover from the mean wind, the shear and its magnitude:
\* the mean wind -+ 7.5 m/s across the shear
bunkersOf(mw, shear, shearMag) ==
    IF IsNum(shearMag) /\ shearMag.v = 0
    THEN [right |-> [u |-> mw.u, v |-> mw.v], left |-> [u |-> mw.u, v |-> mw.v]]
    ELSE [right |-> [u |-> JsAdd(mw.u, JsQuot(shear.v, shearMag, 750)),
                     v |-> JsAdd(mw.v, JsQuot(JsNeg(shear.u), shearMag, 750))],
          left |-> [u |-> JsSub(mw.u, JsQuot(shear.v, shearMag, 750)),
                    v |-> JsSub(mw.v, JsQuot(JsNeg(shear.u), shearMag, 750))]]

\* bunkersMotion from the mean wind and the 0-6 km shear
bunkersFrom(mw, shear) == bunkersOf(mw, shear, shearVector(shear.u, shear.v).mag)

\* Bunkers storm motion
bunkersMotion(lv) ==
    bunkersFrom(meanWind(lv, lv[1].pressure, pressureAtHeight(lv, 6000)),
                bulkShear(lv, 0, 6000))

\* the levels strictly between hBot and hTop metres above the first level
layerLevelsExclusive(lv, hBot, hTop) ==
    SelectSeq(lv, LAMBDA l : l.height - lv[1].height > hBot /\ l.height - lv[1].height < hTop)

\* the levels between hBot and hTop metres above the first level
layerLevels(lv, hBot, hTop) ==
    SelectSeq(lv, LAMBDA l : l.height - lv[1].height >= hBot /\ l.height - lv[1].height <= hTop)

\* (sru2 * srv1) - (sru1 * srv2) in 10^-4 m2/s2
srhTerm(wa, wb, stormU, stormV) ==
    (wb.u.v - stormU) * (wa.v.v - stormV) - (wa.u.v - stormU) * (wb.v.v - stormV)

\* the loop of calcSRH from pair k on
RECURSIVE srhLoop(_, _, _, _)
srhLoop(layer, k, stormU, stormV) ==
    IF k > Len(layer) - 1 THEN 0
    ELSE srhTerm(windComponents(Num(layer[k].windDir), Num(layer[k].windSpd)),
                 windComponents(Num(layer[k + 1].windDir), Num(layer[k + 1].windSpd)),
                 stormU, stormV)
         + srhLoop(layer, k + 1, stormU, stormV)

\* calcSRH over the levels of the layer; a storm motion that is not a number
\* makes every term NaN
srhOf(layer, stormU, stormV) ==
    IF Len(layer) < 2 THEN Num(0)
    ELSE IF IsNum(stormU) /\ IsNum(stormV)
         THEN Num(RoundDiv(srhLoop(layer, 1, stormU.v, stormV.v), 100))
         ELSE NaN

\* storm-relative helicity in 1/100 m2/s2
calcSRH(lv, hBot, hTop, stormU, stormV) == srhOf(layerLevels(lv, hBot, hTop), stormU, stormV)

-----------------------------------------------------------------------------
(* Scalar diagnostics and composites *)

\* lapseRate from the two temperatures (JavaScript numbers or null), in
\* 1/100 C per km: 0 when either is null
lapseOf(tBot, tTop, dh) ==
    IF IsNull(tBot) \/ IsNull(tTop) THEN Num(0)
    ELSE JsNeg(JsQuot(JsSub(tTop, tBot), Num(dh), 1000))

\* lapseRate from the two pressures
lapseAt(lv, pBot, pTop, dh) ==
    lapseOf(interpAtPressure(lv, pBot, "temp"), interpAtPressure(lv, pTop, "temp"), dh)

\* lapse rate between two heights above the first level
lapseRate(lv, hBot, hTop) ==
    lapseAt(lv, pressureAtHeight(lv, hBot), pressureAtHeight(lv, hTop), hTop - hBot)

\* lapseRate700_500 from the four interpolated values: 0 when any is null
lapse700_500Of(t700, t500, h700, h500) ==
    IF IsNull(t700) \/ IsNull(t500) \/ IsNull(h700) \/ IsNull(h500) THEN Num(0)
    ELSE JsNeg(JsQuot(JsSub(t500, t700), JsSub(h500, h700), 1000))

\* 700-500 hPa lapse rate in 1/100 C per km
lapseRate700_500(lv) ==
    lapse700_500Of(interpAtPressure(lv, Num(700), "temp"), interpAtPressure(lv, Num(500), "temp"),
                   heightAtPressure(lv, Num(700)), heightAtPressure(lv, Num(500)))

\* ((w1 + w2) / 2) * dp / g in 1/100 kg/m2, w in 10^-5 kg/kg and dp in Pa
pwLayer(w1, w2, dp) == RoundDiv((w1 + w2) * dp, RoundDiv(2 * g, 100))

\* the loop of precipitableWater from pair k on
RECURSIVE pwLoop(_, _)
pwLoop(lv, k) ==
    IF k > Len(lv) - 1 THEN 0
    ELSE pwLayer(mixingRatio(lv[k].dewpoint, lv[k].pressure * 100),
                 mixingRatio(lv[k + 1].dewpoint, lv[k + 1].pressure * 100),
                 (lv[k].pressure - lv[k + 1].pressure) * 100)
         + pwLoop(lv, k + 1)

\* precipitable water in 1/100 inch
precipitableWater(lv) == Num(RoundDiv(pwLoop(lv, 1) * 10, 254))

\* Math.min(x, c) of a JavaScript number and a constant
JsMinWith(x, c) ==
    IF IsNum(x) THEN Num(IF x.v < c THEN x.v ELSE c)
    ELSE IF IsInf(x) /\ x.v > 0 THEN Num(c) ELSE x

\* the terms of calcSTP, each * 1000; a comparison with NaN is false
stpLclTerm(lcl) ==
    IF IsNum(lcl) /\ lcl.v < 2000 THEN Num(2000 - lcl.v) ELSE Num(0)

stpCinTerm(cin100) ==
    IF IsNum(cin100) /\ cin100.v > -5000 THEN Num(1000)
    ELSE IF IsNum(cin100) /\ cin100.v > -15000 THEN Num(RoundDiv((20000 + cin100.v) * 10, 150))
    ELSE Num(0)

\* Significant Tornado Parameter * 1000: cape and cin in 1/100 J/kg, lcl in
\* m, srh in 1/100 m2/s2, shear in 1/100 kt
calcSTP(sbcape, lcl, srh01, shear06, cin100) ==
    JsMul(JsMul(JsMul(JsMul(JsQuot(sbcape, Num(150), 1), stpLclTerm(lcl), 1000),
                      JsQuot(srh01, Num(15), 1), 1000),
                JsMinWith(JsQuot(shear06, Num(2), 1), 1500), 1000),
          stpCinTerm(cin100), 1000)

\* Supercell Composite Parameter * 1000
calcSCP(mucape, srh03, shear06) ==
    JsMul(JsMul(JsQuot(mucape, Num(100), 1), JsQuot(srh03, Num(10), 1), 1000),
          JsQuot(shear06, Num(2), 1), 1000)

-----------------------------------------------------------------------------
(* Orchestrator *)

\* the origin (temperature, dewpoint, pressure) of the mixed-layer parcel
mlOrigin(lv, ml) == [temp |-> ml.temp, dewpoint |-> ml.dewpoint, pressure |-> lv[1].pressure]

\* the parcels analyzeSounding lifts
Variants == { "sb", "ml", "mu" }

\* the origin analyzeSounding hands to liftParcel for a variant
Origin(lv, variant) ==
    IF variant = "sb" THEN lv[1]
    ELSE IF variant = "ml" THEN mlOrigin(lv, mixedLayerAvg(lv, 100))
    ELSE mostUnstableParcel(lv)

\* liftParcel from an origin
liftOrigin(o, lv) == liftParcel(o.temp, o.dewpoint, o.pressure, lv)

\* sbLCL_hgt ? sbLCL_hgt - sfcH : 0 (null, NaN and 0 are falsy)
lclAGLOf(h, sfcH) ==
    IF IsNum(h) /\ h.v # 0 THEN Num(h.v - sfcH)
    ELSE IF IsInf(h) THEN h
    ELSE Num(0)

\* mag * 1.94384: 1/100 m/s to 1/100 kt
toKts(mag) == JsMul(mag, Num(19438), 10000)

\* the pressure or the height above the surface of an lfc or el, rounded;
\* null when there is none
pointField(pt, field, base) ==
    IF IsNull(pt) THEN Null ELSE Num(pt[field] - base)

\* the record analyzeSounding returns.  cape, cin, srh in J/kg and m2/s2;
\* heights in m; shear in kt; lclTemp, lr03, lr700_500, stp, scp in tenths;
\* pw in 1/100 inch
assemble(lv, sbLift, sb, ml, mu, lclAGL, bunkers, shear01, shear06, srh01, srh03) ==
    [sbcape |-> JsRound(sb.cape, 100),
     sbcin |-> JsRound(sb.cin, 100),
     mlcape |-> JsRound(ml.cape, 100),
     mlcin |-> JsRound(ml.cin, 100),
     mucape |-> JsRound(mu.cape, 100),
     mucin |-> JsRound(mu.cin, 100),
     lclPressure |-> Num(sbLift.pLCL),
     lclHeight |-> JsRound(lclAGL, 1),
     lclTemp |-> JsRound(Num(sbLift.tLCL), 10),
     lfcPressure |-> pointField(sb.lfc, "pressure", 0),
     lfcHeight |-> pointField(sb.lfc, "height", lv[1].height),
     elPressure |-> pointField(sb.el, "pressure", 0),
     elHeight |-> pointField(sb.el, "height", lv[1].height),
     shear01 |-> JsRound(toKts(shear01.mag), 100),
     shear06 |-> JsRound(toKts(shear06.mag), 100),
     srh01 |-> JsRound(srh01, 100),
     srh03 |-> JsRound(srh03, 100),
     bunkers |-> bunkers,
     lr03 |-> JsRound(lapseRate(lv, 0, 3000), 10),
     lr700_500 |-> JsRound(lapseRate700_500(lv), 10),
     pw |-> precipitableWater(lv),
     stp |-> JsRound(calcSTP(sb.cape, lclAGL, srh01, toKts(shear06.mag), sb.cin), 100),
     scp |-> JsRound(calcSCP(mu.cape, srh03, toKts(shear06.mag)), 100),
     sbParcel |-> sbLift.parcel,
     sfcHeight |-> lv[1].height,
     levels |-> lv]

\* analyzeSounding from the three energy results and the storm motion on
analyzeWith(lv, sbLift, sb, ml, mu, bunkers) ==
    assemble(lv, sbLift, sb, ml, mu,
             lclAGLOf(heightAtPressure(lv, Num(sbLift.pLCL)), lv[1].height),
             bunkers,
             bulkShear(lv, 0, 1000),
             bulkShear(lv, 0, 6000),
             calcSRH(lv, 0, 1000, bunkers.right.u, bunkers.right.v),
             calcSRH(lv, 0, 3000, bunkers.right.u, bunkers.right.v))

\* analyzeSounding from the surface-based lift and the storm motion on
analyzeFrom(lv, sbLift, bunkers) ==
    analyzeWith(lv, sbLift,
                calcCAPE_CIN(lv, sbLift.parcel),
                calcCAPE_CIN(lv, liftOrigin(Origin(lv, "ml"), lv).parcel),
                calcCAPE_CIN(lv, liftOrigin(Origin(lv, "mu"), lv).parcel),
                bunkers)

\* analyzeSounding past its guard, but the surface level is shifted off the
\* profile before the analysis
analyzeLevelsShifted(lv) ==
    analyzeFrom(Tail(lv), liftOrigin(Origin(Tail(lv), "sb"), Tail(lv)), bunkersMotion(Tail(lv)))

\* analyzeSounding past its guard
analyzeLevels(lv) == analyzeFrom(lv, liftOrigin(Origin(lv, "sb"), lv), bunkersMotion(lv))

\* analyzeSounding, but a profile of 4 levels is analysed too
analyzeSoundingFrom4(missing, lv) ==
    IF missing \/ Len(lv) < 4 THEN Null ELSE analyzeLevels(lv)

\* full analysis of a sounding; `missing` stands for a null or undefined
\* argument
analyzeSounding(missing, lv) ==
    IF missing \/ Len(lv) < 5 THEN Null ELSE analyzeLevels(lv)

-----------------------------------------------------------------------------
(* Inputs *)

\* a SoundingLevel
Level(p, h, t, td, dir, spd) ==
    [pressure |-> p, height |-> h, temp |-> t, dewpoint |-> td, windDir |-> dir, windSpd |-> spd]

\* the locals of an integrator that has not started
Idle == /\ i = 1
        /\ cape = Num(0)
        /\ cin = Num(0)
        /\ lfc = Null
        /\ el = Null

-----------------------------------------------------------------------------
(* The buoyancy integrator, pair by pair, on any parcel path *)

\* longest parcel path of CapeSpec
MaxPathLen == 4

\* profiles sorted by non-increasing pressure, as the parser leaves them: a
\* plain one, one with an inversion, one whose two lowest levels share a
\* pressure and one whose heights do not rise
CapeProfiles ==
    { <<Level(1000, 100, 2500, 2000, 180, 10), Level(900, 1000, 1800, 1400, 200, 20),
        Level(700, 3000, 500, 0, 240, 30)>>,
      <<Level(1000, 100, 2000, 1500, 180, 10), Level(900, 1000, 2200, 1400, 200, 20),
        Level(700, 3000, 500, 0, 240, 30)>>,
      <<Level(1000, 100, 2500, 2000, 180, 10), Level(1000, 110, 2450, 2000, 180, 10),
        Level(900, 1000, 1800, 1400, 200, 20), Level(700, 3000, 500, 0, 240, 30)>>,
      <<Level(1000, 100, 2500, 2000, 180, 10), Level(900, 1000, 1800, 1400, 200, 20),
        Level(700, 1000, 500, 0, 240, 30)>> }

\* path points: at level pressures, between them (800 hPa) and below the
\* profile (1050 hPa); colder and warmer than any environment above
PathPoints ==
    { [pressure |-> 1000, temp |-> 3000], [pressure |-> 900, temp |-> -1000],
      [pressure |-> 900, temp |-> 3000], [pressure |-> 800, temp |-> 1100],
      [pressure |-> 700, temp |-> -1000], [pressure |-> 700, temp |-> 3000],
      [pressure |-> 1050, temp |-> 3000] }

Paths == UNION { [1..n -> PathPoints] : n \in 0..MaxPathLen }

CapeInit ==
    /\ levels \in CapeProfiles
    /\ parcel \in Paths
    /\ arg = Null
    /\ pc = "cape"
    /\ Idle
    /\ ret = Null

\* the locals of calcCAPE_CIN as a record
Locals == [cape |-> cape, cin |-> cin, lfc |-> lfc, el |-> el]

\* the locals of calcCAPE_CIN become acc
SetLocals(acc) ==
    /\ cape' = acc.cape
    /\ cin' = acc.cin
    /\ lfc' = acc.lfc
    /\ el' = acc.el

\* one iteration of the loop of calcCAPE_CIN (i is 1-based)
CapeIter ==
    /\ pc = "cape"
    /\ i <= Len(parcel) - 1
    /\ SetLocals(capeStep(Locals, levels, parcel[i], parcel[i + 1]))
    /\ i' = i + 1
    /\ UNCHANGED <<levels, parcel, arg, pc, ret>>

\* the loop is over: calcCAPE_CIN returns
CapeReturn ==
    /\ pc = "cape"
    /\ i > Len(parcel) - 1
    /\ ret' = capeReturn(Locals)
    /\ pc' = "done"
    /\ UNCHANGED <<levels, parcel, arg, i, cape, cin, lfc, el>>

CapeNext == CapeIter \/ CapeReturn

CapeSpec == CapeInit /\ [][CapeNext]_vars

\* the energy record of every pair of path points over every profile
EnergyTable ==
    [lv \in CapeProfiles |-> [pt1 \in PathPoints |-> [pt2 \in PathPoints |->
        pairEnergy(lv, pt1, pt2)]]]

\* the energy record of pair j of the path under integration
PairE(j) == EnergyTable[levels][parcel[j]][parcel[j + 1]]

\* pe is a pair that took the `energy > 0` branch
IsPositive(pe) == ~pe.skip /\ IsNum(pe.energy) /\ pe.energy.v > 0

\* the first pair in j .. k - 1 whose energy is positive, k if there is none
RECURSIVE FirstPositive(_, _)
FirstPositive(j, k) ==
    IF j >= k THEN k ELSE IF IsPositive(PairE(j)) THEN j ELSE FirstPositive(j + 1, k)

\* the last pair in 1 .. k whose energy is positive, 0 if there is none
RECURSIVE LastPositive(_)
LastPositive(k) ==
    IF k < 1 THEN 0 ELSE IF IsPositive(PairE(k)) THEN k ELSE LastPositive(k - 1)

\* what pair pe adds to the sum of the positive (or of the other) increments
Term(pe, positive) ==
    IF pe.skip \/ IsPositive(pe) # positive THEN Num(0) ELSE pe.energy

\* the sum, in JavaScript arithmetic, of the positive (or of the other)
\* increments of the pairs j .. k - 1
RECURSIVE SumEnergies(_, _, _)
SumEnergies(j, k, positive) ==
    IF j >= k THEN Num(0)
    ELSE JsAdd(Term(PairE(j), positive), SumEnergies(j + 1, k, positive))

\* the lower point of pair j, the upper point of pair j
LowerPoint(j, pe) == Obj(parcel[j].pressure, pe.z1.v)

UpperPoint(j, pe) == Obj(parcel[j + 1].pressure, pe.z2.v)

\* the point a pair index selects, null for the index `none`
PointOrNull(j, none, upper) ==
    IF j = none THEN Null
    ELSE IF upper THEN UpperPoint(j, PairE(j)) ELSE LowerPoint(j, PairE(j))

\* the path under integration runs by non-increasing pressure
PathDescends == \A j \in 1..(Len(parcel) - 1) : parcel[j].pressure >= parcel[j + 1].pressure

\* calcCAPE_CIN has returned from a path of k points
Done(k) == pc = "done" /\ Len(parcel) = k

\* C1 (as stated): calcCAPE_CIN returns cape >= 0 and cin <= 0 on every
\* profile and path.  Refuted by a profile whose two lowest levels share a
\* pressure: the interpolation divides 0 by 0 and cin comes back NaN.
C1_CapeNonNegCinNonPos ==
    pc = "done" => /\ IsNum(ret.cape) /\ ret.cape.v >= 0
                   /\ IsNum(ret.cin) /\ ret.cin.v <= 0

\* C1, the case that refutes it: the two lowest levels share their pressure,
\* the path descends from the surface, and the cin returned is NaN
C1_NaNCin ==
    /\ pc = "done"
    /\ Len(parcel) >= 2
    /\ PathDescends
    /\ parcel[1].pressure = levels[1].pressure
    /\ levels[1].pressure = levels[2].pressure
    /\ IsNaN(ret.cin)

\* C3: at every point of the loop lfc is the lower point (p1, z1) of the first
\* pair gone through whose energy was positive, whatever pairs came after it,
\* and null when no pair gone through had positive energy; the value returned
\* is that lfc.
C3_FirstLfcWins ==
    /\ lfc = PointOrNull(FirstPositive(1, i), i, FALSE)
    /\ pc = "done" => ret.lfc = lfc

\* C3 witness: a finished path of three pairs, the first and the third
\* positive, whose lfc is still the lower point of the first pair
C3_Witness ==
    /\ Done(4)
    /\ IsPositive(PairE(1)) /\ IsPositive(PairE(3))
    /\ parcel[3].pressure # parcel[1].pressure
    /\ ret.lfc = LowerPoint(1, PairE(1))

\* C4: at every point of the loop cin is the sum of the increments that
\* failed `energy > 0` among the pairs before the first positive one, cape is
\* the sum of the positive increments, so an increment that is not positive
\* changes neither once lfc is set; the cin returned is that sum.
C4_CinBeforeLfcOnly ==
    /\ cin = SumEnergies(1, FirstPositive(1, i), FALSE)
    /\ cape = SumEnergies(1, i, TRUE)
    /\ pc = "done" => ret.cin = cin /\ ret.cape = cape

\* C4 witness: a finished path whose pairs are negative, positive, negative:
\* cin is the first increment alone
C4_Witness ==
    /\ Done(4)
    /\ IsNum(PairE(1).energy) /\ PairE(1).energy.v < 0
    /\ IsPositive(PairE(2))
    /\ IsNum(PairE(3).energy) /\ PairE(3).energy.v < 0
    /\ ret.cin = PairE(1).energy
    /\ ret.cape = PairE(2).energy

\* C5: at every point of the loop el is the upper point (p2, z2) of the last
\* pair gone through whose energy was positive; el is null exactly when lfc
\* is; on a path of non-increasing pressure el.pressure <= lfc.pressure; the
\* value returned is that el.
C5_ElIsLastPositive ==
    /\ el = PointOrNull(LastPositive(i - 1), 0, TRUE)
    /\ IsNull(el) <=> IsNull(lfc)
    /\ PathDescends /\ ~IsNull(el) => el.pressure <= lfc.pressure
    /\ pc = "done" => ret.el = el

\* C5 witness: a finished descending path of three pairs, the first two
\* positive and the third not: el is the upper point of the second pair,
\* strictly above lfc
C5_Witness ==
    /\ Done(4)
    /\ PathDescends
    /\ IsPositive(PairE(1)) /\ IsPositive(PairE(2)) /\ ~IsPositive(PairE(3))
    /\ ret.el = UpperPoint(2, PairE(2))
    /\ ret.el.pressure < ret.lfc.pressure

-----------------------------------------------------------------------------
(* interpAtPressure on any list of levels *)

\* longest list of levels of InterpSpec
MaxInterpLen == 3

\* levels to build lists from: two share the pressure 1000 hPa
InterpLevels ==
    { Level(1000, 100, 2500, 2000, 180, 10), Level(1000, 110, 2450, 2000, 180, 10),
      Level(900, 1000, 1800, 1400, 200, 20), Level(700, 3000, 500, 0, 240, 30) }

\* lists of levels in any order, the empty one included
InterpProfiles == UNION { [1..n -> InterpLevels] : n \in 0..MaxInterpLen }

\* target pressures: at levels, between them, below and above all of them
InterpTargets == { 1050, 1000, 950, 900, 800, 700, 650 }

InterpInit ==
    /\ levels \in InterpProfiles
    /\ parcel = <<>>
    /\ arg \in [pTarget : { Num(t) : t \in InterpTargets }, field : { "temp", "height" }]
    /\ pc = "interp"
    /\ Idle
    /\ ret = Null

\* the call interpAtPressure(levels, pTarget, field)
Interp ==
    /\ pc = "interp"
    /\ ret' = interpAtPressure(levels, arg.pTarget, arg.field)
    /\ pc' = "done"
    /\ UNCHANGED <<levels, parcel, arg, i, cape, cin, lfc, el>>

InterpNext == Interp

InterpSpec == InterpInit /\ [][InterpNext]_vars

\* the pressures of a list of levels
Pressures(lv) == { lv[k].pressure : k \in 1..Len(lv) }

\* t lies in [min(profile pressures), max(profile pressures)]
InRange(lv, t) == (\E p \in Pressures(lv) : p <= t) /\ (\E p \in Pressures(lv) : p >= t)

\* lv is sorted by non-increasing pressure
Sorted(lv) == \A k \in 1..(Len(lv) - 1) : lv[k].pressure >= lv[k + 1].pressure

\* the adjacent pair (k, k + 1) brackets t inclusively, in either direction
Bracketing(lv, k, t) ==
    \/ lv[k].pressure >= t /\ t >= lv[k + 1].pressure
    \/ lv[k].pressure <= t /\ t <= lv[k + 1].pressure

\* k is the first adjacent pair that brackets t
IsFirstBracketing(lv, k, t) ==
    Bracketing(lv, k, t) /\ \A j \in 1..(k - 1) : ~Bracketing(lv, j, t)

\* the call has returned with a target inside the range of a sorted list of at
\* least two levels
InsideSorted ==
    /\ pc = "done"
    /\ Len(levels) >= 2
    /\ Sorted(levels)
    /\ InRange(levels, arg.pTarget.v)

\* C7 (as stated): interpAtPressure returns null for every target outside
\* [min, max] of the pressures; on a list of at least two levels sorted by
\* non-increasing pressure it returns, for every target inside, a number, the
\* one interpolated over the first adjacent pair that brackets the target.
\* Refuted where that pair shares its pressure: the result is NaN.
C7_InterpInsideOutside ==
    /\ pc = "done" /\ ~InRange(levels, arg.pTarget.v) => IsNull(ret)
    /\ InsideSorted =>
          /\ IsNum(ret)
          /\ \E k \in 1..(Len(levels) - 1) :
                /\ IsFirstBracketing(levels, k, arg.pTarget.v)
                /\ ret = interpPair(levels[k], levels[k + 1], arg.pTarget.v, arg.field)

\* C7, NaN counted as a value: null outside the range; inside the range of a
\* sorted list of at least two levels never null and always the result of the
\* first bracketing pair
C7_FirstBracketingPair ==
    /\ pc = "done" /\ ~InRange(levels, arg.pTarget.v) => IsNull(ret)
    /\ InsideSorted =>
          /\ ~IsNull(ret)
          /\ \E k \in 1..(Len(levels) - 1) :
                /\ IsFirstBracketing(levels, k, arg.pTarget.v)
                /\ ret = interpPair(levels[k], levels[k + 1], arg.pTarget.v, arg.field)

\* C7, the case that refutes it: a sorted list whose first two levels share
\* the target pressure
C7_NaNInside == InsideSorted /\ IsNaN(ret) /\ levels[1].pressure = levels[2].pressure

-----------------------------------------------------------------------------
(* The three parcels of analyzeSounding: lifted, then integrated *)

\* a level at pressure p of a column whose temperature falls by `lapse`
\* (1/100 degree per hPa) from 30 C at 1000 hPa and whose height rises by
\* 10 m per hPa from 100 m; `skin` is added to the temperature, `dep` is the
\* dewpoint depression and h the pressure the height is taken at
ColumnLevel(p, h, lapse, dep, skin) ==
    Level(p, 100 + (1000 - h) * 10, 3000 - lapse * (1000 - p) + skin,
          3000 - lapse * (1000 - p) + skin - dep, 180 + ((1000 - p) \div 5), 10 + ((1000 - p) \div 10))

\* the profile over the pressures ps; the surface level is warmer by `skin`;
\* when `flat`, the surface level is as high as the second one
Column(ps, lapse, dep, skin, flat) ==
    [k \in 1..Len(ps) |->
        ColumnLevel(ps[k], IF flat /\ k = 1 THEN ps[2] ELSE ps[k], lapse, dep,
                    IF k = 1 THEN skin ELSE 0)]

\* pressures of the profiles: five levels; five levels, the two lowest at one
\* pressure; five levels within 300 hPa; six levels
LiftPressures ==
    { <<1000, 900, 800, 700, 500>>, <<1000, 1000, 900, 700, 500>>,
      <<1000, 950, 900, 800, 720>>, <<1000, 950, 900, 800, 700, 500>> }

\* stable and unstable columns, moist and dry; unstable ones with a hot
\* surface; one whose two lowest levels share their height
LiftProfiles ==
    { Column(ps, lapse, dep, 0, FALSE) :
        ps \in LiftPressures, lapse \in {3, 10}, dep \in {200, 1500} }
    \cup { Column(<<1000, 900, 800, 700, 500>>, 10, dep, 800, FALSE) : dep \in {200, 1500} }
    \cup { Column(<<1000, 900, 800, 700, 500>>, 10, 200, 0, TRUE) }

LiftInit ==
    /\ levels \in LiftProfiles
    /\ parcel = <<>>
    /\ arg \in Variants
    /\ pc = "lift"
    /\ Idle
    /\ ret = Null

\* const xxLift = liftParcel(...): ret is the record returned
Lift ==
    /\ pc = "lift"
    /\ \E r \in { liftOrigin(Origin(levels, arg), levels) } :
          /\ ret' = r
          /\ parcel' = r.parcel
    /\ pc' = "integrate"
    /\ UNCHANGED <<levels, arg, i, cape, cin, lfc, el>>

\* const xxResult = calcCAPE_CIN(levels, xxLift.parcel)
Integrate ==
    /\ pc = "integrate"
    /\ ret' = calcCAPE_CIN(levels, parcel)
    /\ pc' = "done"
    /\ UNCHANGED <<levels, parcel, arg, i, cape, cin, lfc, el>>

LiftNext == Lift \/ Integrate

LiftSpec == LiftInit /\ [][LiftNext]_vars

\* the indices of the levels liftParcel keeps for an origin at pressure p
Qualifying(lv, p) ==
    SelectSeq([k \in 1..Len(lv) |-> k], LAMBDA k : lv[k].pressure <= p)

\* the path that has one point per kept level q[j], on the dry adiabat from
\* the origin o at or below the LCL and on the moist adiabat from the LCL
\* above it
ExpectedPath(lv, q, o, pLCL, tLCL) ==
    [j \in 1..Len(q) |->
        [pressure |-> lv[q[j]].pressure,
         temp |-> IF lv[q[j]].pressure >= pLCL
                  THEN dryAdiabat(o.temp, o.pressure, lv[q[j]].pressure)
                  ELSE moistAdiabat(tLCL, pLCL, lv[q[j]].pressure, DefaultSteps)]]

\* the path and LCL returned are those of the origin o
LiftedFrom(o) ==
    /\ ret.pLCL = lclPressure(o.temp, o.dewpoint, o.pressure)
    /\ ret.tLCL = KtoC(lclTemp(o.temp, o.dewpoint))
    /\ parcel = ExpectedPath(levels, Qualifying(levels, o.pressure), o, ret.pLCL, ret.tLCL)
    /\ parcel[1].pressure = o.pressure

\* C8: liftParcel returns one path point per level whose pressure is <= the
\* origin pressure and none for the others, in profile order, so the path of
\* a sorted profile runs by non-increasing pressure from the origin; a point
\* is on the dry adiabat from the origin iff its pressure >= the LCL pressure,
\* else on the moist adiabat from the LCL.
C8_OnePointPerLevel ==
    pc = "integrate" => LiftedFrom(Origin(levels, arg)) /\ PathDescends

\* C8 witness: a parcel lifted from above the surface, so that levels are
\* left out, with points on either adiabat
C8_Witness ==
    /\ pc = "integrate"
    /\ Len(parcel) < Len(levels)
    /\ \E j \in 1..Len(parcel) : parcel[j].pressure >= ret.pLCL
    /\ \E j \in 1..Len(parcel) : parcel[j].pressure < ret.pLCL

\* the level of path point j (the path is a suffix of a sorted profile)
EnvLevel(j) == levels[Len(levels) - Len(parcel) + j]

\* the parcel is warmer than the environment at every level above its origin
WarmerAbove == \A j \in 2..Len(parcel) : parcel[j].temp > EnvLevel(j).temp

\* calcCAPE_CIN has returned for a profile of exactly 5 levels of strictly
\* decreasing pressure and a parcel warmer than it above the origin
NoCinCase ==
    /\ pc = "done"
    /\ Len(levels) = 5
    /\ \A k \in 1..4 : levels[k].pressure > levels[k + 1].pressure
    /\ WarmerAbove

\* lfc is the origin level of the parcel and cin is 0
LfcAtOrigin ==
    /\ ret.lfc = Obj(EnvLevel(1).pressure, EnvLevel(1).height)
    /\ ret.cin = Num(0)

\* C6 (as stated): for a profile of exactly 5 levels of strictly decreasing
\* pressure and a lifted parcel warmer than the environment at every level
\* above its origin, calcCAPE_CIN returns lfc at the origin level and
\* cin = 0.  Refuted by a mixed-layer parcel colder than the surface level,
\* by a most-unstable parcel lifted from the top level and by a profile whose
\* two lowest levels share their height.
C6_NoCinLfcAtOrigin == NoCinCase => LfcAtOrigin

\* the parcel is not colder than the environment at its origin, there is a
\* level above the origin, and height rises from level to level
NoCinFromOrigin ==
    /\ Len(parcel) >= 2
    /\ parcel[1].temp >= EnvLevel(1).temp
    /\ \A k \in 1..4 : levels[k].height < levels[k + 1].height

\* C6 (amended): if moreover height rises strictly from level to level, the
\* parcel has a level above its origin and is not colder than the
\* environment at its origin, then lfc is the origin level and cin = 0.
C6_NoCinLfcAtOriginAmended == NoCinCase /\ NoCinFromOrigin => LfcAtOrigin

\* C6 witness: such a case with positive cape
C6_Witness ==
    /\ NoCinCase
    /\ NoCinFromOrigin
    /\ LfcAtOrigin
    /\ ret.cape.v > 0
    /\ ret.el.pressure = levels[5].pressure

-----------------------------------------------------------------------------
(* bulkShear as analyzeSounding calls it *)

\* a column whose wind veers by `veer` degrees and gains `gain` knots per
\* 10 hPa
WindColumn(ps, veer, gain, flat) ==
    [k \in 1..Len(ps) |->
        [Column(ps, 10, 200, 0, flat)[k] EXCEPT
            !.windDir = 180 + veer * ((1000 - ps[k]) \div 10),
            !.windSpd = 10 + gain * ((1000 - ps[k]) \div 10)]]

\* pressures of profiles that top out 7000, 5000, 2000 and 900 m above the
\* surface
ShearPressures ==
    { <<1000, 900, 700, 500, 300>>, <<1000, 900, 800, 700, 500>>,
      <<1000, 950, 900, 850, 800>>, <<1000, 980, 960, 940, 910>> }

ShearProfiles ==
    { WindColumn(ps, veer, gain, flat) :
        ps \in ShearPressures, veer \in {0, 3}, gain \in {0, 1}, flat \in BOOLEAN }

\* the layers analyzeSounding asks for: 0-1 km and 0-6 km
ShearLayers == { [hBot |-> 0, hTop |-> 1000], [hBot |-> 0, hTop |-> 6000] }

ShearInit ==
    /\ levels \in ShearProfiles
    /\ parcel = <<>>
    /\ arg \in ShearLayers
    /\ pc = "shear"
    /\ Idle
    /\ ret = Null

\* the call bulkShear(levels, hBot, hTop)
BulkShear ==
    /\ pc = "shear"
    /\ ret' = bulkShear(levels, arg.hBot, arg.hTop)
    /\ pc' = "done"
    /\ UNCHANGED <<levels, parcel, arg, i, cape, cin, lfc, el>>

ShearNext == BulkShear

ShearSpec == ShearInit /\ [][ShearNext]_vars

\* h metres above the first level is a height the profile covers
Covered(lv, h) ==
    /\ \E k \in 1..Len(lv) : lv[k].height <= lv[1].height + h
    /\ \E k \in 1..Len(lv) : lv[k].height >= lv[1].height + h

\* C9 (as stated): bulkShear returns the zero vector whenever hBot or hTop is
\* a height the profile does not cover.  Refuted by a profile that tops out
\* below hTop: pressureAtHeight falls back on the top level's pressure and
\* the shear between the surface and the top level is returned.
C9_ZeroOutsideCoverage ==
    pc = "done" /\ ~(Covered(levels, arg.hBot) /\ Covered(levels, arg.hTop))
        => ret = [mag |-> Num(0), u |-> Num(0), v |-> Num(0)]

\* C9, the case that refutes it: hTop above the top level and a shear that
\* is not zero
C9_ShearAboveTop ==
    /\ pc = "done"
    /\ levels[Len(levels)].height < levels[1].height + arg.hTop
    /\ IsNum(ret.mag) /\ ret.mag.v > 0
    /\ ret = shearBetween(windComponents(Num(levels[1].windDir), Num(levels[1].windSpd)),
                          windComponents(Num(levels[Len(levels)].windDir),
                                         Num(levels[Len(levels)].windSpd)))

-----------------------------------------------------------------------------
(* analyzeSounding: the whole analysis of a profile *)

\* longest profile handed to analyzeSounding
MaxPrefixLen == 6

\* pressures of the soundings: one with its lowest five levels within 200 hPa,
\* one reaching 500 hPa with its fifth level, one with its two lowest levels
\* at one pressure
AnalyzePressures ==
    { <<1000, 950, 900, 850, 800, 700, 500, 400>>,
      <<1000, 900, 800, 700, 500, 400, 300, 250>>,
      <<1000, 1000, 900, 700, 500, 400, 300, 250>> }

\* soundings: stable and unstable, moist and very dry, with and without a
\* surface level as high as the second one; soundings whose dewpoint is 2
\* degrees above the temperature at every level
AnalyzeColumns ==
    { Column(ps, lapse, dep, 0, flat) :
        ps \in AnalyzePressures, lapse \in {3, 10}, dep \in {200, 3000}, flat \in BOOLEAN }
    \cup { Column(ps, 10, -200, 0, FALSE) : ps \in AnalyzePressures }

\* the profiles handed over: the lowest levels of a sounding, none to
\* MaxPrefixLen of them
AnalyzeProfiles ==
    { SubSeq(c, 1, n) : c \in AnalyzeColumns, n \in 0..MaxPrefixLen }

AnalyzeInit ==
    /\ arg \in { [missing |-> b] : b \in BOOLEAN }
    /\ levels \in (IF arg.missing THEN { <<>> } ELSE AnalyzeProfiles)
    /\ parcel = <<>>
    /\ pc = "analyze"
    /\ Idle
    /\ ret = Null

\* the call analyzeSounding(levels)
Analyze ==
    /\ pc = "analyze"
    /\ ret' = analyzeSounding(arg.missing, levels)
    /\ pc' = "done"
    /\ UNCHANGED <<levels, parcel, arg, i, cape, cin, lfc, el>>

AnalyzeNext == Analyze

AnalyzeSpec == AnalyzeInit /\ [][AnalyzeNext]_vars

\* the fields of the record analyzeSounding returns
ResultFields ==
    { "sbcape", "sbcin", "mlcape", "mlcin", "mucape", "mucin",
      "lclPressure", "lclHeight", "lclTemp",
      "lfcPressure", "lfcHeight", "elPressure", "elHeight",
      "shear01", "shear06", "srh01", "srh03", "bunkers",
      "lr03", "lr700_500", "pw", "stp", "scp",
      "sbParcel", "sfcHeight", "levels" }

\* r is null
IsNoResult(r) == DOMAIN r = DOMAIN Null /\ r = Null

\* r is a record with every field of the result
IsResult(r) == DOMAIN r = ResultFields

\* analyzeSounding has returned for a profile that was handed over
Analyzed == pc = "done" /\ ~arg.missing

\* C2: analyzeSounding called with a missing profile or a profile of fewer
\* than 5 levels returns null, never a record, partially filled or not; with 5
\* or more levels it returns a record with every field of the result.
C2_NullBelowFiveLevels ==
    pc = "done" =>
        IF arg.missing \/ Len(levels) < 5 THEN IsNoResult(ret) ELSE IsResult(ret)

\* a profile of 4 levels was handed over and null came back
C2_Witness == Analyzed /\ Len(levels) = 4 /\ IsNoResult(ret)

\* the profile has levels at or below and at or above pressure p
ReachesPressure(lv, p) == lv[1].pressure >= p /\ lv[Len(lv)].pressure <= p

\* the profile has levels at or below and at or above the height h above
\* its surface
ReachesHeight(lv, h) == \E k \in 1..Len(lv) : lv[k].height - lv[1].height >= h

\* C10: when an interpolation target falls outside the profile's pressure or
\* height coverage, analyzeSounding still returns a record and the affected
\* field is null: the 700-500 hPa lapse rate when the profile does not reach
\* 700 or 500 hPa, the 0-3 km lapse rate when it does not reach 3 km above the
\* surface, the LCL height when the LCL pressure is above the top level.
C10_OutOfRangeIsNone ==
    Analyzed /\ Len(levels) >= 5 =>
        /\ IsResult(ret)
        /\ ~(ReachesPressure(levels, 700) /\ ReachesPressure(levels, 500))
              => IsNull(ret.lr700_500)
        /\ ~ReachesHeight(levels, 3000) => IsNull(ret.lr03)
        /\ ~ReachesPressure(levels, ret.lclPressure.v) => IsNull(ret.lclHeight)

\* a profile that tops out at 800 hPa, below its LCL and below 3 km, comes
\* back with numbers in the three fields
C10_SubstitutedNumbers ==
    /\ Analyzed /\ Len(levels) >= 5 /\ IsResult(ret)
    /\ ~ReachesPressure(levels, 700)
    /\ ~ReachesHeight(levels, 3000)
    /\ ~ReachesPressure(levels, ret.lclPressure.v)
    /\ ret.lr700_500 = Num(0)
    /\ IsNum(ret.lr03)
    /\ ret.lclHeight = Num(0)

\* the fields of the result that hold one number
NumericFields == ResultFields \ { "bunkers", "sbParcel", "sfcHeight", "levels" }

\* x is a number or the explicit null
Available(x) == IsNum(x) \/ IsNull(x)

\* pressure does not increase from the surface up
NonIncreasing(lv) == \A k \in 1..(Len(lv) - 1) : lv[k].pressure >= lv[k + 1].pressure

\* the numbers of the result, the four components of the storm motion included
ResultNumbers(r) ==
    { r[f] : f \in NumericFields }
        \cup { r.bunkers.right.u, r.bunkers.right.v, r.bunkers.left.u, r.bunkers.left.v }

\* C11: for a profile of at least 5 levels with non-increasing pressure, where
\* adjacent levels may share a pressure or a height, no numeric field of the
\* record analyzeSounding returns is NaN or Infinity.
C11_NoNaNOrInfinity ==
    Analyzed /\ Len(levels) >= 5 /\ NonIncreasing(levels) =>
        \A x \in ResultNumbers(ret) : Available(x)

\* such a profile with two levels at one pressure comes back with NaN or
\* Infinity in a field
C11_NaNField ==
    /\ Analyzed /\ Len(levels) >= 5 /\ NonIncreasing(levels)
    /\ \E k \in 1..(Len(levels) - 1) : levels[k].pressure = levels[k + 1].pressure
    /\ \E x \in ResultNumbers(ret) : ~Available(x)

\* a level whose dewpoint is above its temperature
NonPhysical(lv) == \E k \in 1..Len(lv) : lv[k].dewpoint > lv[k].temp

\* C12: a profile with a non-physical level (dewpoint above temperature) is
\* rejected at the entry of analyzeSounding before any formula is evaluated:
\* no record of computed values comes back for it.
C12_NonPhysicalRejected ==
    Analyzed /\ NonPhysical(levels) => ~IsResult(ret)

\* a profile of 5 levels with dewpoint above temperature was analysed like
\* any other: a full record with a surface-based CAPE came back
C12_NonPhysicalAnalysed ==
    /\ Analyzed /\ Len(levels) = 5 /\ NonPhysical(levels)
    /\ IsResult(ret)
    /\ IsNum(ret.sbcape) /\ ret.sbcape.v > 0

\* C13: no step of analyzeSounding mutates the profile or a level of it: the
\* profile is the same after the call as before, the record holds that same
\* profile, and the surface-based parcel path of the record is the path
\* liftParcel built from the surface level, untouched by the later steps.
C13_ProfileNotMutated ==
    [][pc = "analyze" /\ pc' = "done" =>
          /\ levels' = levels
          /\ IsResult(ret') =>
                /\ ret'.levels = levels
                /\ ret'.sfcHeight = levels[1].height
                /\ ret'.sbParcel = liftOrigin(levels[1], levels).parcel]_vars

\* a profile of 6 levels was analysed and the record holds it, with a parcel
\* path of 6 points
C13_Witness ==
    /\ Analyzed /\ Len(levels) = 6 /\ IsResult(ret)
    /\ ret.levels = levels
    /\ Len(ret.sbParcel) = 6

-----------------------------------------------------------------------------
(* The three parcel pipelines of analyzeSounding, in any order *)

\* soundings: stable and unstable, moist and dry
PipelineProfiles ==
    { Column(ps, lapse, dep, 0, FALSE) :
        ps \in { <<1000, 900, 800, 700, 500>>, <<1000, 950, 900, 800, 700, 500>> },
        lapse \in {3, 10}, dep \in {200, 1500} }

\* the parcel path a pipeline integrates, but the surface-based path is taken
\* whenever it is there already
pipelineParcelShared(lifts, variant) ==
    IF "parcel" \in DOMAIN lifts["sb"] THEN lifts["sb"].parcel ELSE lifts[variant].parcel

\* the parcel path a pipeline integrates: the one it lifted itself
pipelineParcel(lifts, variant) == lifts[variant].parcel

\* parcel holds the lift of each pipeline, ret the energy result of each and
\* the record; pc the position of each pipeline and of the assembly
PipelineInit ==
    /\ levels \in PipelineProfiles
    /\ parcel = [v \in Variants |-> Null]
    /\ arg = Null
    /\ pc = [v \in Variants \cup { "record" } |-> IF v = "record" THEN "assemble" ELSE "lift"]
    /\ Idle
    /\ ret = [v \in Variants \cup { "record" } |-> Null]

\* the liftParcel call of a pipeline
PipelineLift(variant) ==
    /\ pc[variant] = "lift"
    /\ parcel' = [parcel EXCEPT ![variant] = liftOrigin(Origin(levels, variant), levels)]
    /\ pc' = [pc EXCEPT ![variant] = "integrate"]
    /\ UNCHANGED <<levels, arg, i, cape, cin, lfc, el, ret>>

\* the calcCAPE_CIN call of a pipeline
PipelineIntegrate(variant) ==
    /\ pc[variant] = "integrate"
    /\ ret' = [ret EXCEPT ![variant] = calcCAPE_CIN(levels, pipelineParcel(parcel, variant))]
    /\ pc' = [pc EXCEPT ![variant] = "done"]
    /\ UNCHANGED <<levels, parcel, arg, i, cape, cin, lfc, el>>

\* the rest of analyzeSounding, once the three pipelines are through
PipelineAssemble ==
    /\ \A v \in Variants : pc[v] = "done"
    /\ pc["record"] = "assemble"
    /\ ret' = [ret EXCEPT !["record"] =
                  analyzeWith(levels, parcel["sb"], ret["sb"], ret["ml"], ret["mu"],
                              bunkersMotion(levels))]
    /\ pc' = [pc EXCEPT !["record"] = "done"]
    /\ UNCHANGED <<levels, parcel, arg, i, cape, cin, lfc, el>>

PipelineNext ==
    \/ \E variant \in Variants : PipelineLift(variant)
    \/ \E variant \in Variants : PipelineIntegrate(variant)
    \/ PipelineAssemble

PipelineSpec == PipelineInit /\ [][PipelineNext]_vars

\* the energy result of a pipeline when analyzeSounding runs them in its order
SequentialResult(lv, variant) ==
    calcCAPE_CIN(lv, liftOrigin(Origin(lv, variant), lv).parcel)

\* C14: the surface-based, mixed-layer and most-unstable pipelines are
\* independent: in whatever order their steps are taken, each ends with the
\* energy result analyzeSounding computes for it, and the record assembled
\* from them is the record analyzeSounding returns.
C14_PipelinesIndependent ==
    /\ \A v \in Variants : pc[v] = "done" => ret[v] = SequentialResult(levels, v)
    /\ pc["record"] = "done" => ret["record"] = analyzeSounding(FALSE, levels)

\* the most-unstable pipeline is through before the surface-based one has
\* started, and its result differs from the mixed-layer one's
C14_Witness ==
    /\ pc["mu"] = "done" /\ pc["sb"] = "lift" /\ pc["ml"] = "done"
    /\ ret["mu"] # ret["ml"]

-----------------------------------------------------------------------------
(* bunkersMotion on profiles with and without shear *)

\* pressures of profiles that top out 7000, 5000, 2000 and 900 m above the
\* surface, and of one that reaches 7500 m with six levels
BunkersPressures == ShearPressures \cup { <<1000, 900, 700, 500, 300, 250>> }

\* the profile with its second level moved to the pressure of the first
SamePressure(c) == [c EXCEPT ![2].pressure = c[1].pressure]

\* profiles with the same wind at every level (veer 0, gain 0) and with winds
\* that veer and strengthen with height; with distinct pressures, and with the
\* two lowest levels at one pressure
BunkersProfiles ==
    { WindColumn(ps, veer, gain, flat) :
        ps \in BunkersPressures, veer \in {0, 3}, gain \in {0, 1}, flat \in BOOLEAN }
    \cup { SamePressure(WindColumn(ps, veer, 0, flat)) :
             ps \in BunkersPressures, veer \in {0, 3}, flat \in BOOLEAN }

BunkersInit ==
    /\ levels \in BunkersProfiles
    /\ parcel = <<>>
    /\ arg = Null
    /\ pc = "bunkers"
    /\ Idle
    /\ ret = Null

\* the call bunkersMotion(levels)
Bunkers ==
    /\ pc = "bunkers"
    /\ ret' = bunkersMotion(levels)
    /\ pc' = "done"
    /\ UNCHANGED <<levels, parcel, arg, i, cape, cin, lfc, el>>

BunkersNext == Bunkers

BunkersSpec == BunkersInit /\ [][BunkersNext]_vars

\* every level has the wind of the first
UniformWind(lv) ==
    \A k \in 1..Len(lv) : lv[k].windDir = lv[1].windDir /\ lv[k].windSpd = lv[1].windSpd

\* pressure decreases from each level to the next
Decreasing(lv) == \A k \in 1..(Len(lv) - 1) : lv[k].pressure > lv[k + 1].pressure

\* both movers are the 0-6 km mean wind, a pair of numbers
BothMeanWind(lv, r) ==
    /\ r.right = r.left
    /\ r.right = meanWind(lv, lv[1].pressure, pressureAtHeight(lv, 6000))
    /\ IsNum(r.right.u) /\ IsNum(r.right.v)

\* C15: bunkersMotion on a profile with the same wind direction and speed at
\* every level returns right-mover equal to left-mover equal to the 0-6 km
\* mean wind, a pair of numbers.
C15_ZeroShearMeanWind ==
    pc = "done" /\ UniformWind(levels) => BothMeanWind(levels, ret)

\* the same on the profiles whose pressures are distinct
C15_ZeroShearDistinctPressures ==
    pc = "done" /\ UniformWind(levels) /\ Decreasing(levels) => BothMeanWind(levels, ret)

\* distinct pressures, the same wind at every level: both movers are the
\* mean wind, which is not zero
C15_MeanWindReturned ==
    /\ pc = "done" /\ UniformWind(levels) /\ Decreasing(levels)
    /\ BothMeanWind(levels, ret)
    /\ ret.right.v.v # 0

\* the same wind at every level, the two lowest levels at one pressure and at
\* different heights: the right-mover is NaN
C15_NaNMotion ==
    /\ pc = "done" /\ UniformWind(levels) /\ NonIncreasing(levels)
    /\ levels[1].pressure = levels[2].pressure /\ levels[1].height < levels[2].height
    /\ IsNaN(ret.right.u)

-----------------------------------------------------------------------------
(* calcSRH over the layers analyzeSounding asks for *)

\* the profiles of BunkersSpec, and profiles whose second level is 1500 m
\* above the surface
SrhProfiles ==
    BunkersProfiles
    \cup { WindColumn(<<1000, 850, 700, 500, 300>>, veer, 1, FALSE) : veer \in {0, 3} }

\* the layers analyzeSounding asks for: 0-1 km and 0-3 km
SrhLayers == { [hBot |-> 0, hTop |-> 1000], [hBot |-> 0, hTop |-> 3000] }

\* the storm motion is the right-mover of bunkersMotion
SrhInit ==
    /\ levels \in SrhProfiles
    /\ parcel = <<>>
    /\ arg \in { [hBot |-> l.hBot, hTop |-> l.hTop, storm |-> bunkersMotion(levels).right] :
                   l \in SrhLayers }
    /\ pc = "srh"
    /\ Idle
    /\ ret = Null

\* the call calcSRH(levels, hBot, hTop, stormU, stormV)
Srh ==
    /\ pc = "srh"
    /\ ret' = calcSRH(levels, arg.hBot, arg.hTop, arg.storm.u, arg.storm.v)
    /\ pc' = "done"
    /\ UNCHANGED <<levels, parcel, arg, i, cape, cin, lfc, el>>

SrhNext == Srh

SrhSpec == SrhInit /\ [][SrhNext]_vars

\* the indices of the levels whose height above the surface is in
\* [hBot, hTop]
KeptLevels(lv, hBot, hTop) ==
    { k \in 1..Len(lv) : lv[k].height - lv[1].height >= hBot
                         /\ lv[k].height - lv[1].height <= hTop }

\* the kept level that follows the kept level k
NextKept(kept, k) == CHOOSE j \in kept : j > k /\ \A m \in kept : m > k => m >= j

\* the wind components of a level
WindOf(l) == windComponents(Num(l.windDir), Num(l.windSpd))

\* (u2 - stormU) * (v1 - stormV) - (u1 - stormU) * (v2 - stormV), in 10^-4 m2/s2
CrossProduct(l1, l2, storm) ==
    (WindOf(l2).u.v - storm.u.v) * (WindOf(l1).v.v - storm.v.v)
        - (WindOf(l1).u.v - storm.u.v) * (WindOf(l2).v.v - storm.v.v)

\* the sum of the cross products over the adjacent pairs of kept levels
RECURSIVE SumCross(_, _, _, _)
SumCross(lv, kept, from, storm) ==
    IF \A j \in kept : j <= from THEN 0
    ELSE CrossProduct(lv[from], lv[NextKept(kept, from)], storm)
             + SumCross(lv, kept, NextKept(kept, from), storm)

\* the helicity of the claim, in 1/100 m2/s2
ExpectedSrh(lv, kept, storm) ==
    IF Cardinality(kept) < 2 THEN Num(0)
    ELSE IF IsNum(storm.u) /\ IsNum(storm.v)
         THEN Num(RoundDiv(SumCross(lv, kept, CHOOSE k \in kept : \A j \in kept : j >= k, storm), 100))
         ELSE NaN

\* C16: calcSRH keeps the levels whose height above the surface level lies in
\* [hBot, hTop], bounds included, and returns the sum over each adjacent pair
\* of kept levels of (u2 - stormU)*(v1 - stormV) - (u1 - stormU)*(v2 - stormV);
\* with two kept levels that is the one cross product, with fewer it is 0.
C16_SrhIsSumOfCrossProducts ==
    pc = "done" =>
        ret = ExpectedSrh(levels, KeptLevels(levels, arg.hBot, arg.hTop), arg.storm)

\* two levels are kept, the upper one exactly at hTop, and the helicity is
\* their cross product, which is not zero
C16_Witness ==
    /\ pc = "done"
    /\ KeptLevels(levels, arg.hBot, arg.hTop) = {1, 2}
    /\ levels[2].height - levels[1].height = arg.hTop
    /\ IsNum(ret) /\ ret.v # 0
    /\ ret = Num(RoundDiv(CrossProduct(levels[1], levels[2], arg.storm), 100))

-----------------------------------------------------------------------------
(* mostUnstableParcel and mixedLayerAvg on the profiles of analyzeSounding *)

\* the profile with the pressure, temperature and dewpoint of the surface
\* level at its second level too
TwinSurface(c) ==
    [c EXCEPT ![2].pressure = c[1].pressure, ![2].temp = c[1].temp,
              ![2].dewpoint = c[1].dewpoint]

\* stable and unstable columns, moist and dry, with and without a hot surface,
\* and the same with a second level that ties with the surface level
SelectorProfiles ==
    { Column(ps, lapse, dep, skin, FALSE) :
        ps \in LiftPressures, lapse \in {3, 10}, dep \in {200, 1500}, skin \in {0, 800} }
    \cup { TwinSurface(Column(ps, lapse, dep, 0, FALSE)) :
             ps \in LiftPressures, lapse \in {3, 10}, dep \in {200, 1500} }

\* the two selectors as analyzeSounding calls them: mostUnstableParcel over
\* the bottom 300 hPa, mixedLayerAvg with its default depth of 100 hPa
SelectorCalls == { [fn |-> "mostUnstableParcel", depth |-> 300],
                   [fn |-> "mixedLayerAvg", depth |-> 100] }

SelectorInit ==
    /\ levels \in SelectorProfiles
    /\ parcel = <<>>
    /\ arg \in SelectorCalls
    /\ pc = "select"
    /\ Idle
    /\ ret = Null

\* the call mostUnstableParcel(levels)
MostUnstable ==
    /\ pc = "select"
    /\ arg.fn = "mostUnstableParcel"
    /\ ret' = mostUnstableParcel(levels)
    /\ pc' = "done"
    /\ UNCHANGED <<levels, parcel, arg, i, cape, cin, lfc, el>>

\* the call mixedLayerAvg(levels)
MixedLayer ==
    /\ pc = "select"
    /\ arg.fn = "mixedLayerAvg"
    /\ ret' = mixedLayerAvg(levels, arg.depth)
    /\ pc' = "done"
    /\ UNCHANGED <<levels, parcel, arg, i, cape, cin, lfc, el>>

SelectorNext == MostUnstable \/ MixedLayer

SelectorSpec == SelectorInit /\ [][SelectorNext]_vars

\* mostUnstableParcel has returned
MuDone == pc = "done" /\ arg.fn = "mostUnstableParcel"

\* mixedLayerAvg has returned
MlDone == pc = "done" /\ arg.fn = "mixedLayerAvg"

\* the indices of the levels within `depth` hPa of the surface pressure
InBottom(lv, depth) == { k \in 1..Len(lv) : lv[k].pressure >= lv[1].pressure - depth }

\* theta-e of level k
ThetaEAt(lv, k) == thetaE(lv[k].temp, lv[k].dewpoint, lv[k].pressure)

\* k is the first of the levels of greatest theta-e among those of `among`
FirstOfGreatest(lv, among, k) ==
    /\ k \in among
    /\ \A j \in among : ThetaEAt(lv, j) <= ThetaEAt(lv, k)
    /\ \A j \in among : j < k => ThetaEAt(lv, j) < ThetaEAt(lv, k)

\* C17: mostUnstableParcel returns a level of the profile within the bottom
\* 300 hPa whose theta-e is greatest among the levels there, the first of them
\* when several share the greatest theta-e.
C17_FirstOfGreatestThetaE ==
    MuDone =>
        \E k \in InBottom(levels, 300) :
            FirstOfGreatest(levels, InBottom(levels, 300), k) /\ ret = levels[k]

\* the second level ties with the surface level on the greatest theta-e, the
\* two differ, and the surface level is returned
C17_Witness ==
    /\ MuDone
    /\ ThetaEAt(levels, 2) = ThetaEAt(levels, 1)
    /\ levels[2] # levels[1]
    /\ FirstOfGreatest(levels, InBottom(levels, 300), 1)
    /\ ret = levels[1]

\* the level returned is not the surface level, and a level higher up, out
\* of the bottom 300 hPa, has a greater theta-e still
C17_WitnessAloft ==
    /\ MuDone
    /\ ret # levels[1]
    /\ \E j \in 1..Len(levels) : j \notin InBottom(levels, 300)
                                 /\ ThetaEAt(levels, j) > thetaE(ret.temp, ret.dewpoint, ret.pressure)

\* the indices of the levels with surface pressure - depth <= p <= surface
\* pressure
InLayer(lv, depth) ==
    { k \in 1..Len(lv) : lv[k].pressure >= lv[1].pressure - depth
                         /\ lv[k].pressure <= lv[1].pressure }

\* the sum of a field over the levels of a set of indices
RECURSIVE SumField(_, _, _)
SumField(lv, ks, field) ==
    IF ks = {} THEN 0
    ELSE LET k == CHOOSE j \in ks : TRUE
         IN lv[k][field] + SumField(lv, ks \ {k}, field)

\* the arithmetic mean of a field over the levels of a set of indices, to
\* 1/100 degree
MeanField(lv, ks, field) == RoundDiv(SumField(lv, ks, field), Cardinality(ks))

\* C18: mixedLayerAvg returns the arithmetic mean of temperature and of
\* dewpoint over exactly the levels with surface pressure - depth <= p <=
\* surface pressure, and the surface level's own temperature and dewpoint when
\* no level qualifies.
C18_MeanOverLayer ==
    MlDone =>
        IF InLayer(levels, arg.depth) = {}
        THEN ret = [temp |-> levels[1].temp, dewpoint |-> levels[1].dewpoint]
        ELSE ret = [temp |-> MeanField(levels, InLayer(levels, arg.depth), "temp"),
                    dewpoint |-> MeanField(levels, InLayer(levels, arg.depth), "dewpoint")]

\* three levels are within 100 hPa of the surface, others are not, and the
\* mean over the three differs from the surface temperature
C18_Witness ==
    /\ MlDone
    /\ InLayer(levels, arg.depth) = {1, 2, 3}
    /\ Len(levels) > 3
    /\ ret.temp = MeanField(levels, {1, 2, 3}, "temp")
    /\ ret.temp # levels[1].temp

-----------------------------------------------------------------------------
(* Height against pressure *)

\* the height at pressure t on the straight line, in pressure, through the
\* levels a and b, to the metre
LinearInPressure(a, b, t) ==
    a.height + RoundDiv((t - a.pressure) * (b.height - a.height), b.pressure - a.pressure)

\* the height at pressure t on the straight line, in the logarithm of
\* pressure, through the levels a and b, to the metre
LinearInLogPressure(a, b, t) ==
    a.height + RoundDiv((Ln(t) - Ln(a.pressure)) * (b.height - a.height),
                        Ln(b.pressure) - Ln(a.pressure))

\* the first pair of levels whose pressures bracket the target
BracketingPair(lv, t) == FirstBracket(lv, "pressure", t, 1)

\* heightAtPressure has returned a number
HeightDone == pc = "done" /\ arg.field = "height" /\ IsNum(ret)

\* C19: heightAtPressure interpolates height linearly in pressure, not in
\* log-pressure, between the two bracketing levels: the height returned is, to
\* within 2 m, the one on the straight line in pressure.
C19_HeightLinearInPressure ==
    HeightDone =>
        Abs(ret.v - LinearInPressure(levels[BracketingPair(levels, arg.pTarget.v)],
                                     levels[BracketingPair(levels, arg.pTarget.v) + 1],
                                     arg.pTarget.v)) <= 2

\* what holds instead: the height returned is the one on the straight line in
\* log-pressure
C19_HeightLinearInLogPressure ==
    HeightDone =>
        ret.v = LinearInLogPressure(levels[BracketingPair(levels, arg.pTarget.v)],
                                    levels[BracketingPair(levels, arg.pTarget.v) + 1],
                                    arg.pTarget.v)

\* 800 hPa between the levels at 900 hPa, 1000 m and 700 hPa, 3000 m: the
\* straight line in pressure gives 2000 m, the height returned is more than
\* 50 m lower
C19_LogHeight ==
    /\ HeightDone
    /\ arg.pTarget.v = 800
    /\ Len(levels) = 2 /\ levels[1].pressure = 900 /\ levels[2].pressure = 700
    /\ LinearInPressure(levels[1], levels[2], 800) = 2000
    /\ ret.v < 1950
    /\ ret.v = LinearInLogPressure(levels[1], levels[2], 800)

-----------------------------------------------------------------------------
(* pressureAtHeight at the heights analyzeSounding asks for *)

\* the heights above the surface handed to pressureAtHeight: by bulkShear,
\* lapseRate and bunkersMotion
HeightTargets == { 0, 1000, 3000, 6000 }

PressureAtHeightInit ==
    /\ levels \in BunkersProfiles
    /\ parcel = <<>>
    /\ arg \in [hTarget : HeightTargets]
    /\ pc = "pressureAtHeight"
    /\ Idle
    /\ ret = Null

\* the call pressureAtHeight(levels, hTarget)
PressureAtHeight ==
    /\ pc = "pressureAtHeight"
    /\ ret' = pressureAtHeight(levels, arg.hTarget)
    /\ pc' = "done"
    /\ UNCHANGED <<levels, parcel, arg, i, cape, cin, lfc, el>>

PressureAtHeightNext == PressureAtHeight

PressureAtHeightSpec == PressureAtHeightInit /\ [][PressureAtHeightNext]_vars

\* the target height is above every level of the profile
AboveExtent(lv, h) == \A k \in 1..Len(lv) : lv[k].height - lv[1].height < h

\* k and k + 1 are the first adjacent levels whose heights bracket the target
FirstHeightPair(lv, h, k) ==
    /\ k \in 1..(Len(lv) - 1)
    /\ Brackets(lv[k].height - lv[1].height, lv[k + 1].height - lv[1].height, h)
    /\ \A j \in 1..(k - 1) :
          ~Brackets(lv[j].height - lv[1].height, lv[j + 1].height - lv[1].height, h)

\* x is a number between the pressures of the levels a and b
BetweenPressures(x, a, b) ==
    IsNum(x) /\ Brackets(a.pressure, b.pressure, x.v)

\* the pressure returned is the top level's above the extent, and between the
\* pressures of the first bracketing pair otherwise
ClampedOrBetween(lv, h, r) ==
    IF AboveExtent(lv, h) THEN r = Num(lv[Len(lv)].pressure)
    ELSE \E k \in 1..(Len(lv) - 1) :
            FirstHeightPair(lv, h, k) /\ BetweenPressures(r, lv[k], lv[k + 1])

\* C20: pressureAtHeight returns the pressure of the topmost level when the
\* target height above the surface exceeds the profile's extent, and otherwise
\* a pressure between the pressures of the first adjacent pair of levels whose
\* heights bracket the target.
C20_ClampedOrBetween ==
    pc = "done" => ClampedOrBetween(levels, arg.hTarget, ret)

\* the same where the first bracketing pair does not share its height
C20_ClampedOrBetweenDistinctHeights ==
    pc = "done"
    /\ (\A k \in 1..(Len(levels) - 1) :
           FirstHeightPair(levels, arg.hTarget, k) => levels[k].height # levels[k + 1].height)
        => ClampedOrBetween(levels, arg.hTarget, ret)

\* the two lowest levels share the surface height, the target is the surface
\* and NaN comes back
C20_NaNPressure ==
    /\ pc = "done"
    /\ arg.hTarget = 0
    /\ levels[1].height = levels[2].height
    /\ FirstHeightPair(levels, 0, 1)
    /\ IsNaN(ret)

\* the target is above the extent and the top level's pressure comes back
C20_Clamped ==
    /\ pc = "done"
    /\ AboveExtent(levels, arg.hTarget)
    /\ ret = Num(levels[Len(levels)].pressure)

-----------------------------------------------------------------------------
(* calcSTP and calcSCP on the values analyzeSounding hands over *)

\* surface-based CAPE, 1/100 J/kg: Math.max(0, cape) is never negative or NaN
StpCapes == { Num(0), Num(50000), Num(300000) }

\* LCL height above the surface, m
StpLcls == { Num(0), Num(500), Num(1000), Num(1999), Num(2000), Num(3505) }

\* storm-relative helicity, 1/100 m2/s2; NaN with a storm motion that is NaN
StpSrhs == { Num(-5000), Num(0), Num(15000), NaN }

\* 0-6 km shear, 1/100 kt; NaN when the wind interpolates to NaN
StpShears == { Num(0), Num(1000), Num(3000), Num(6000), Num(12000), NaN }

\* CIN, 1/100 J/kg: Math.min(0, cin) is never positive
StpCins == { Num(0), Num(-4900), Num(-5000), Num(-10000), Num(-14900), Num(-15000),
             Num(-20000), NaN }

CompositeInit ==
    /\ levels = <<>>
    /\ parcel = <<>>
    /\ arg \in [fn : { "calcSTP", "calcSCP" }, cape : StpCapes, lcl : StpLcls,
                srh : StpSrhs, shear : StpShears, cin : StpCins]
    /\ arg.fn = "calcSCP" => arg.lcl = Num(0) /\ arg.cin = Num(0)
    /\ pc = "composite"
    /\ Idle
    /\ ret = Null

\* the call calcSTP(sbcape, lclAGL, srh01, shear06 kt, cin)
Stp ==
    /\ pc = "composite"
    /\ arg.fn = "calcSTP"
    /\ ret' = calcSTP(arg.cape, arg.lcl, arg.srh, arg.shear, arg.cin)
    /\ pc' = "done"
    /\ UNCHANGED <<levels, parcel, arg, i, cape, cin, lfc, el>>

\* the call calcSCP(mucape, srh03, shear06 kt)
Scp ==
    /\ pc = "composite"
    /\ arg.fn = "calcSCP"
    /\ ret' = calcSCP(arg.cape, arg.srh, arg.shear)
    /\ pc' = "done"
    /\ UNCHANGED <<levels, parcel, arg, i, cape, cin, lfc, el>>

CompositeNext == Stp \/ Scp

CompositeSpec == CompositeInit /\ [][CompositeNext]_vars

\* calcSTP has returned
StpDone == pc = "done" /\ arg.fn = "calcSTP"

\* calcSCP has returned
ScpDone == pc = "done" /\ arg.fn = "calcSCP"

\* the value of calcSTP with one argument replaced
StpWith(a, field, x) ==
    calcSTP([a EXCEPT ![field] = x].cape, [a EXCEPT ![field] = x].lcl,
            [a EXCEPT ![field] = x].srh, [a EXCEPT ![field] = x].shear,
            [a EXCEPT ![field] = x].cin)

\* the shear term is min(shear06 / 20, 1.5): from 30 kt on the value is the
\* one at 30 kt
ShearTermCapped(a, r) ==
    IsNum(a.shear) /\ a.shear.v >= 3000 => r = StpWith(a, "shear", Num(3000))

\* the CIN term is 1 for cin > -50: the value is the one at cin = 0
CinTermOne(a, r) ==
    IsNum(a.cin) /\ a.cin.v > -5000 => r = StpWith(a, "cin", Num(0))

\* the CIN term is (200 + cin) / 150 for -150 < cin <= -50: the value is that
\* share of the one at cin = 0, to the rounding of the model
CinTermSloped(a, r) ==
    IsNum(a.cin) /\ a.cin.v > -15000 /\ a.cin.v <= -5000 /\ IsNum(r) =>
        Abs(r.v * 150 - StpWith(a, "cin", Num(0)).v * ((20000 + a.cin.v) \div 100)) <= 300

\* the cases in which the claim has STP at 0
StpZeroCase(a) ==
    \/ IsNum(a.lcl) /\ a.lcl.v >= 2000
    \/ IsNum(a.cin) /\ a.cin.v <= -15000
    \/ a.cape = Num(0)

\* the terms and the zeros of the claim
StpAsClaimed(a, r) ==
    /\ ShearTermCapped(a, r)
    /\ CinTermOne(a, r)
    /\ CinTermSloped(a, r)
    /\ StpZeroCase(a) => r = Num(0)

\* C21: calcSTP is the product of five terms: the shear term is
\* min(shear06/20, 1.5), the LCL term is 0 from 2000 m on, the CIN term is 1
\* for cin > -50, (200 + cin)/150 for -150 < cin <= -50 and 0 for cin <= -150;
\* hence STP is 0 whenever lclHeight >= 2000, cin <= -150 or cape is 0.
C21_StpTermsAndZeros == StpDone => StpAsClaimed(arg, ret)

\* the same where helicity and shear are numbers
C21_StpOnNumbers ==
    StpDone /\ IsNum(arg.srh) /\ IsNum(arg.shear) => StpAsClaimed(arg, ret)

\* cape is 0 and the LCL is above 2000 m, the helicity is NaN, and STP is NaN
C21_NaNStp ==
    /\ StpDone
    /\ arg.cape = Num(0) /\ arg.lcl = Num(3505)
    /\ IsNaN(arg.srh)
    /\ IsNaN(ret)

\* C22: calcSCP is a product of independently clamped terms, so its shear term
\* does not grow without bound with shear06kt: from 60 kt on, where the
\* unclamped term shear06/20 is 3, the value stays the one at 60 kt.
C22_ShearTermClamped ==
    ScpDone /\ IsNum(arg.shear) /\ arg.shear.v >= 6000 =>
        ret = calcSCP(arg.cape, arg.srh, Num(6000))

\* mucape 3000 J/kg, srh03 150 m2/s2: at 120 kt SCP is 27, twice its value
\* at 60 kt
C22_ShearTermGrows ==
    /\ ScpDone
    /\ arg.cape = Num(300000) /\ arg.srh = Num(15000) /\ arg.shear = Num(12000)
    /\ ret = Num(27000)
    /\ ret.v = 2 * calcSCP(arg.cape, arg.srh, Num(6000)).v

-----------------------------------------------------------------------------
(* The LFC and EL of the record against those of the integrator *)

\* the pressure or height of a point of the integrator, null when there is
\* no point
Exposed(pt, field) == IF IsNull(pt) THEN Null ELSE Num(pt[field])

\* the four fields of the record are the values of the integrator's points
ExposesPoints(r, sb) ==
    /\ r.lfcPressure = Exposed(sb.lfc, "pressure")
    /\ r.lfcHeight = Exposed(sb.lfc, "height")
    /\ r.elPressure = Exposed(sb.el, "pressure")
    /\ r.elHeight = Exposed(sb.el, "height")

\* C23: the record analyzeSounding returns exposes the LFC and EL pressure and
\* height as the buoyancy integrator found them for the surface-based parcel,
\* neither rounded nor otherwise converted.
C23_LfcElAsIntegrated ==
    Analyzed /\ IsResult(ret) => ExposesPoints(ret, SequentialResult(levels, "sb"))

\* the integrator found an LFC above the surface level; the record holds its
\* height less the surface height, not the height found
C23_HeightAboveSurface ==
    /\ Analyzed /\ IsResult(ret)
    /\ levels[1].height > 0
    /\ IsNum(ret.lfcHeight) /\ ret.lfcHeight.v > 0
    /\ ret.lfcHeight.v = SequentialResult(levels, "sb").lfc.height - levels[1].height
    /\ ret.lfcPressure.v = SequentialResult(levels, "sb").lfc.pressure

-----------------------------------------------------------------------------
(* The loop of moistAdiabat, iteration by iteration *)

\* the loop test `i < steps`, but the loop is left one iteration early
moistContinueEarly(k, steps) == k + 1 < steps

\* the loop test `i < steps`
moistContinue(k, steps) == k < steps

\* the calls liftParcel makes for the levels above the LCL: the temperature
\* (1/100 C) and pressure of the LCL, the pressure of the level, the default
\* number of steps
StepperCalls ==
    { [tc |-> t, pStart |-> p[1], pEnd |-> p[2], steps |-> DefaultSteps] :
        t \in { 1880, -600 },
        p \in { <<929, 900>>, <<929, 500>>, <<929, 928>>, <<643, 500>>, <<643, 300>> } }

\* the locals t and p at the entry of the loop: 1/1000 K and 1/1000 hPa
StepperEntry(c) == <<CtoK(c.tc) * 10, c.pStart * 1000>>

\* the local dp, 1/1000 hPa
StepperDp(c) == RoundDiv((c.pEnd - c.pStart) * 1000, c.steps)

RECURSIVE stepperIterates(_, _, _)

\* the pairs that follow `first`, n more of them (the test makes `first` a
\* value before the rest starts)
stepperJoin(first, dp, n) ==
    IF Len(first) = 0 THEN first
    ELSE first \o stepperIterates(moistStep(first[Len(first)], dp), dp, n)

\* the locals t and p from `st` on, n pairs, each moistStep of the one before:
\* the first half of them, then the rest (grouped so only to keep the
\* evaluation shallow)
stepperIterates(st, dp, n) ==
    IF n <= 1 THEN <<st>>
    ELSE stepperJoin(stepperIterates(st, dp, n \div 2), dp, n - (n \div 2))

\* for each call, the locals t and p at the entry of the loop and after each
\* of its iterations: element k + 1 is the pair after k iterations
StepperLocals ==
    [c \in StepperCalls |->
        stepperIterates(StepperEntry(c), StepperDp(c), c.steps + 1)]

\* i counts the iterations from 0; ret holds the locals t and p
StepperInit ==
    /\ levels = <<>>
    /\ parcel = <<>>
    /\ arg \in StepperCalls
    /\ pc = "stepper"
    /\ i = 0
    /\ cape = Num(0)
    /\ cin = Num(0)
    /\ lfc = Null
    /\ el = Null
    /\ ret = StepperLocals[arg][1]

\* one iteration of the loop: t += dtdp * dp, p += dp, i++; the locals are
\* read off StepperLocals
StepperIter ==
    /\ pc = "stepper"
    /\ moistContinue(i, arg.steps)
    /\ ret' = StepperLocals[arg][i + 2]
    /\ i' = i + 1
    /\ UNCHANGED <<levels, parcel, arg, pc, cape, cin, lfc, el>>

\* the loop is left: return KtoC(t)
StepperReturn ==
    /\ pc = "stepper"
    /\ ~moistContinue(i, arg.steps)
    /\ ret' = Num(KtoC(RoundDiv(ret[1], 10)))
    /\ pc' = "done"
    /\ UNCHANGED <<levels, parcel, arg, i, cape, cin, lfc, el>>

StepperNext == StepperIter \/ StepperReturn

StepperSpec == StepperInit /\ [][StepperNext]_vars

\* a call that has started runs on: nothing suspends the loop
StepperFairSpec == StepperSpec /\ WF_vars(StepperNext)

\* C24: analyzeSounding always terminates: the loop of the moist-adiabat
\* stepper runs exactly `steps` iterations, 200 by default, whatever the
\* temperatures and pressures, and then returns.
C24_StepperTerminates == <>(pc = "done" /\ i = arg.steps)

\* the stepper has returned after 200 iterations with the temperature
\* moistAdiabat gives for the call
C24_Witness ==
    /\ pc = "done"
    /\ i = 200
    /\ ret = Num(moistAdiabat(arg.tc, arg.pStart, arg.pEnd, arg.steps))

\* the locals of StepperLocals are those of the loop body: each pair is
\* moistStep of the one before
C24_LocalsAreSteps ==
    pc = "stepper" /\ i < arg.steps => StepperLocals[arg][i + 2] = moistStep(ret, StepperDp(arg))

----------------------------------------------------------------------------
(* Overall severity (humanizer.js).  The analysis record is the one
   analyzeSounding returns: sbcape in J/kg, shear06 in kt, srh03 in m2/s2,
   all whole numbers, and stp in tenths.  The score is counted in halves
   (the code adds 2.5 for shear above 40 kt). *)

\* x > c of JavaScript, c a finite number
JsGreater(x, c) == (IsNum(x) /\ x.v > c) \/ (IsInf(x) /\ x.v > 0)

\* x < c of JavaScript, c a finite number
JsLess(x, c) == (IsNum(x) /\ x.v < c) \/ (IsInf(x) /\ x.v < 0)

\* CAPE contribution
capeScore(sbcape) ==
    IF JsGreater(sbcape, 4000) THEN 8
    ELSE IF JsGreater(sbcape, 2500) THEN 6
    ELSE IF JsGreater(sbcape, 1000) THEN 4
    ELSE IF JsGreater(sbcape, 500) THEN 2
    ELSE 0

\* shear contribution
shearScore(shear06) ==
    IF JsGreater(shear06, 50) THEN 6
    ELSE IF JsGreater(shear06, 40) THEN 5
    ELSE IF JsGreater(shear06, 30) THEN 4
    ELSE IF JsGreater(shear06, 20) THEN 2
    ELSE 0

\* SRH contribution
srhScore(srh03) ==
    IF JsGreater(srh03, 400) THEN 6
    ELSE IF JsGreater(srh03, 200) THEN 4
    ELSE IF JsGreater(srh03, 100) THEN 2
    ELSE 0

\* STP contribution (stp in tenths)
stpScore(stp) ==
    IF JsGreater(stp, 60) THEN 6
    ELSE IF JsGreater(stp, 30) THEN 4
    ELSE IF JsGreater(stp, 10) THEN 2
    ELSE 0

\* the recalibration, but virtually no instability is capped like weak
\* instability
recalibrateWeakOnly(score, sbcape) ==
    IF JsLess(sbcape, 500) THEN (IF score < 8 THEN score ELSE 8) ELSE score

\* the recalibration on available instability: Math.min(score, 2) below
\* 100 J/kg, Math.min(score, 4) below 500 J/kg
recalibrate(score, sbcape) ==
    IF JsLess(sbcape, 100) THEN (IF score < 4 THEN score ELSE 4)
    ELSE IF JsLess(sbcape, 500) THEN (IF score < 8 THEN score ELSE 8)
    ELSE score

\* the level of a score
severityLevel(score) ==
    IF score >= 20 THEN "extreme"
    ELSE IF score >= 14 THEN "high"
    ELSE IF score >= 10 THEN "enhanced"
    ELSE IF score >= 6 THEN "marginal"
    ELSE "low"

overallSeverity(a) ==
    [level |-> severityLevel(recalibrate(capeScore(a.sbcape) + shearScore(a.shear06)
                                         + srhScore(a.srh03) + stpScore(a.stp),
                                         a.sbcape))]

\* humanize, as far as the severity goes
humanize(analysis) ==
    IF analysis = Null THEN Null ELSE [severity |-> overallSeverity(analysis)]

\* analyses handed to humanize: values on both sides of every threshold, a
\* NaN where analyzeSounding can return one, and no analysis at all
SeverityCapes == { Num(0), Num(99), Num(100), Num(499), Num(500), Num(501), Num(1001),
                   Num(2501), Num(4001) }
SeverityShears == { Num(0), Num(21), Num(31), Num(41), Num(51), NaN }
SeveritySrhs == { Num(-50), Num(101), Num(201), Num(401), NaN }
SeverityStps == { Num(0), Num(11), Num(31), Num(61), NaN }

SeverityInit ==
    /\ levels = <<>>
    /\ parcel = <<>>
    /\ arg \in [sbcape : SeverityCapes, shear06 : SeverityShears, srh03 : SeveritySrhs,
                stp : SeverityStps] \cup { Null }
    /\ pc = "humanize"
    /\ Idle
    /\ ret = Null

\* the call humanize(analysis)
Humanize ==
    /\ pc = "humanize"
    /\ ret' = humanize(arg)
    /\ pc' = "done"
    /\ UNCHANGED <<levels, parcel, arg, i, cape, cin, lfc, el>>

SeverityNext == Humanize

SeveritySpec == SeverityInit /\ [][SeverityNext]_vars

\* humanize has returned a briefing
Humanized == pc = "done" /\ arg # Null

\* C25: with sbcape below 100 J/kg the level is 'low' whatever the shear, SRH
\* and STP; with sbcape below 500 J/kg the level is never above 'marginal'
C25_SeverityCappedByCape ==
    Humanized =>
        /\ JsLess(arg.sbcape, 100) => ret.severity.level = "low"
        /\ JsLess(arg.sbcape, 500) => ret.severity.level \in { "low", "marginal" }

\* C25: both caps act: the greatest contributions of shear, SRH and STP give
\* 'low' at 99 J/kg and 'marginal' at 499 J/kg, and 'high' at 500 J/kg
C25_Witness ==
    /\ Humanized
    /\ arg.shear06 = Num(51) /\ arg.srh03 = Num(401) /\ arg.stp = Num(61)
    /\ \/ arg.sbcape = Num(99) /\ ret.severity.level = "low"
       \/ arg.sbcape = Num(499) /\ ret.severity.level = "marginal"

----------------------------------------------------------------------------
(* The parser (sounding.js).  A text is its sequence of trimmed non-empty
   lines, a line the sequence of its tokens between white space, a token the
   sequence of its characters.  Letters are upper case.  The numbers of a
   parsed level are the numbers of the text, in the text's own units. *)

Undefined == [t |-> "undefined", v |-> 0]

Digits == <<"0", "1", "2", "3", "4", "5", "6", "7", "8", "9">>

IsDigit(c) == \E d \in 1..10 : Digits[d] = c

DigitValue(c) == (CHOOSE d \in 1..10 : Digits[d] = c) - 1

RECURSIVE digitsValue(_, _)
\* the value of a sequence of decimal digits, acc the value read so far
digitsValue(tok, acc) ==
    IF tok = <<>> THEN acc ELSE digitsValue(Tail(tok), 10 * acc + DigitValue(Head(tok)))

AllDigits(tok) == tok # <<>> /\ \A k \in 1..Len(tok) : IsDigit(tok[k])

\* Number(token): a decimal integer with an optional minus sign, NaN for
\* anything else
Number(tok) ==
    IF AllDigits(tok) THEN Num(digitsValue(tok, 0))
    ELSE IF tok # <<>> /\ Head(tok) = "-" /\ AllDigits(Tail(tok))
         THEN Num(-digitsValue(Tail(tok), 0))
    ELSE NaN

RECURSIVE digitsOf(_)
\* the decimal digits of a natural number
digitsOf(n) ==
    IF n < 10 THEN <<Digits[n + 1]>> ELSE Append(digitsOf(n \div 10), Digits[(n % 10) + 1])

\* a number as it is written in a text
Written(n) == IF n < 0 THEN <<"-">> \o digitsOf(-n) ELSE digitsOf(n)

\* the token contains the word
Includes(tok, word) ==
    \E k \in 0..(Len(tok) - Len(word)) : SubSeq(tok, k + 1, k + Len(word)) = word

\* the line contains the word (a word has no white space)
lineIncludes(line, word) == \E k \in 1..Len(line) : Includes(line[k], word)

PRES == <<"P", "R", "E", "S">>
HGHT == <<"H", "G", "H", "T">>
HGT == <<"H", "G", "T">>
TEMP == <<"T", "E", "M", "P">>
DWPT == <<"D", "W", "P", "T">>
DRCT == <<"D", "R", "C", "T">>
SKNT == <<"S", "K", "N", "T">>

\* the names of a column in a header
ColumnNames ==
    [pres |-> { PRES, PRES \o <<"S", "U", "R", "E">> },
     hght |-> { HGHT, HGT, <<"H", "E", "I", "G", "H", "T">> },
     temp |-> { TEMP, <<"T", "M", "P", "C">> },
     dwpt |-> { DWPT, <<"T", "M", "D", "C">>, <<"D", "W", "P", "C">> },
     drct |-> { DRCT, <<"W", "D", "I", "R">> },
     sknt |-> { SKNT, <<"W", "S", "P", "D">>, <<"K", "N", "O", "T">> }]

\* the line is a header line
isHeader(line) ==
    /\ lineIncludes(line, PRES)
    /\ lineIncludes(line, HGHT) \/ lineIncludes(line, HGT)
    /\ lineIncludes(line, TEMP)

\* index of the header among the first 20 lines, 0 when there is none
\* (lines are counted from 1)
headerIndex(lines) ==
    IF \E k \in 1..Len(lines) : k <= 20 /\ isHeader(lines[k])
    THEN CHOOSE k \in 1..Len(lines) :
            /\ k <= 20 /\ isHeader(lines[k])
            /\ \A j \in 1..(k - 1) : ~isHeader(lines[j])
    ELSE 0

\* colMap[col] ?? dflt: the position (from 0) of the last header token with a
\* name of the column, dflt without one or without a header
columnOf(header, col, dflt) ==
    IF \E k \in 1..Len(header) : header[k] \in ColumnNames[col]
    THEN (CHOOSE k \in 1..Len(header) :
            /\ header[k] \in ColumnNames[col]
            /\ \A j \in (k + 1)..Len(header) : header[j] \notin ColumnNames[col]) - 1
    ELSE dflt

\* nums[idx], undefined past the end
numAt(line, idx) == IF idx < Len(line) THEN Number(line[idx + 1]) ELSE Undefined

\* the line is skipped before it is split: a separator of dashes, a line that
\* starts with a letter, a comment
skipped(line) ==
    \/ Len(line) = 1 /\ \A k \in 1..Len(line[1]) : line[1][k] \in { "-", "=" }
    \/ ~IsDigit(line[1][1]) /\ line[1][1] \notin { "-", "=", "%", "#" }
    \/ line[1][1] \in { "%", "#" }

\* the line is split and all its tokens are numbers
numeric(line) == Len(line) >= 6 /\ \A k \in 1..Len(line) : ~IsNaN(Number(line[k]))

\* the line is numeric, but one of fewer tokens is taken too
numericAnyLength(line) == \A k \in 1..Len(line) : ~IsNaN(Number(line[k]))

\* the level of a numeric line under the header (<<>> without header)
levelOf(line, header) ==
    [pressure |-> numAt(line, columnOf(header, "pres", 0)),
     height |-> numAt(line, columnOf(header, "hght", 1)),
     temp |-> numAt(line, columnOf(header, "temp", 2)),
     dewpoint |-> numAt(line, columnOf(header, "dwpt", 3)),
     windDir |-> numAt(line, columnOf(header, "drct", 4)),
     windSpd |-> numAt(line, columnOf(header, "sknt", 5))]

\* the sanity checks
insane(l) ==
    \/ JsLess(l.pressure, 50) \/ JsGreater(l.pressure, 1100)
    \/ JsLess(l.temp, -100) \/ JsGreater(l.temp, 60)
    \/ JsLess(l.dewpoint, -100) \/ JsGreater(l.dewpoint, 60)
    \/ JsGreater(l.temp, 9990) \/ JsGreater(l.dewpoint, 9990)

\* the line contributes a level
contributes(line, header) ==
    ~skipped(line) /\ numeric(line) /\ ~insane(levelOf(line, header))

RECURSIVE parseLines(_, _, _, _)
\* the loop over the lines from line k on
parseLines(lines, k, header, acc) ==
    IF k > Len(lines) THEN acc
    ELSE parseLines(lines, k + 1, header,
                    IF contributes(lines[k], header)
                    THEN Append(acc, levelOf(lines[k], header)) ELSE acc)

\* the levels in the order of the text
parsedLevels(lines) ==
    parseLines(lines, headerIndex(lines) + 1,
               IF headerIndex(lines) = 0 THEN <<>> ELSE lines[headerIndex(lines)], <<>>)

RECURSIVE insertLevel(_, _)
\* l put behind the levels of sorted whose pressure is not lower
insertLevel(sorted, l) ==
    IF sorted = <<>> THEN <<l>>
    ELSE IF Head(sorted).pressure.v >= l.pressure.v THEN <<Head(sorted)>> \o insertLevel(Tail(sorted), l)
    ELSE <<l>> \o sorted

RECURSIVE sortLevels(_, _)
\* the stable sort by pressure, descending
sortLevels(ls, sorted) ==
    IF ls = <<>> THEN sorted ELSE sortLevels(Tail(ls), insertLevel(sorted, Head(ls)))

\* the arrangements of the levels
Arrangements(ls) ==
    { [k \in 1..Len(ls) |-> ls[f[k]]] :
        f \in { h \in [1..Len(ls) -> 1..Len(ls)] : \A a, b \in 1..Len(ls) : h[a] = h[b] => a = b } }

\* levels.sort((a, b) => b.pressure - a.pressure): the stable sort when every
\* difference is a number; with an undefined pressure the comparator is not
\* consistent and the order is whatever the engine leaves
sortOutcomes(ls) ==
    IF \A k \in 1..Len(ls) : IsNum(ls[k].pressure) THEN { sortLevels(ls, <<>>) }
    ELSE Arrangements(ls)

\* the lines of the texts
DataLines ==
    { <<Written(1000), Written(100), Written(25), Written(20), Written(180), Written(10)>>,
      <<Written(850), Written(1500), Written(15), Written(10), Written(200), Written(20)>>,
      <<Written(850), Written(1500), Written(15), Written(10), Written(200), Written(20),
        Written(300)>>,
      <<Written(500), Written(5600), Written(-15), Written(-30), Written(250), Written(40)>>,
      <<Written(40), Written(20000), Written(-50), Written(-60), Written(270), Written(50)>>,
      <<Written(900), Written(1000), Written(70), Written(10), Written(200), Written(10)>>,
      <<Written(700), Written(3000), Written(9999), Written(9999), Written(0), Written(0)>>,
      <<Written(925), Written(800), Written(20), Written(15), Written(190)>>,
      <<Written(925), Written(800), Written(20), Written(15), Written(190), <<"M">>>> }

OtherLines ==
    { <<PRES, HGHT, TEMP, DWPT, DRCT, SKNT>>,
      <<HGHT, PRES, TEMP, DWPT, DRCT, SKNT>>,
      <<<<"L", "A", "T">>, <<"L", "O", "N">>, <<"E", "L", "E", "V">>, <<"I", "D">>,
        <<"D", "A", "Y">>, <<"H", "O", "U", "R">>, PRES, HGHT, TEMP, DWPT, DRCT, SKNT>>,
      <<<<"-", "-", "-", "-">>>>,
      <<<<"%", "E", "N", "D", "%">>>> }

MaxLines == 3

ParseTexts ==
    UNION { [1..n -> DataLines \cup OtherLines] : n \in 1..MaxLines }

ParseInit ==
    /\ levels = <<>>
    /\ parcel = <<>>
    /\ arg \in ParseTexts
    /\ pc = "parse"
    /\ Idle
    /\ ret = Null

\* the call parseSounding(text); ret is the field levels of the result
Parse ==
    /\ pc = "parse"
    /\ ret' \in sortOutcomes(parsedLevels(arg))
    /\ pc' = "done"
    /\ UNCHANGED <<levels, parcel, arg, i, cape, cin, lfc, el>>

ParseNext == Parse

ParseSpec == ParseInit /\ [][ParseNext]_vars

Parsed == pc = "done"

Within(x, lo, hi) == IsNum(x) /\ lo <= x.v /\ x.v <= hi

\* the returned levels are sorted by non-increasing pressure and within the
\* sanity ranges
SortedInRange(ls) ==
    /\ \A k \in 1..(Len(ls) - 1) :
          IsNum(ls[k].pressure) /\ IsNum(ls[k + 1].pressure)
          /\ ls[k].pressure.v >= ls[k + 1].pressure.v
    /\ \A k \in 1..Len(ls) :
          /\ Within(ls[k].pressure, 50, 1100)
          /\ Within(ls[k].temp, -100, 60)
          /\ Within(ls[k].dewpoint, -100, 60)

\* the lines of the text that have 6 tokens or more, all of them numbers
FullNumericLines(lines) ==
    { k \in 1..Len(lines) :
        Len(lines[k]) >= 6 /\ \A j \in 1..Len(lines[k]) : IsNum(Number(lines[k][j])) }

\* C26: the levels parseSounding returns are sorted by non-increasing
\* pressure, each has 50 <= pressure <= 1100, -100 <= temp <= 60 and
\* -100 <= dewpoint <= 60, and a line with fewer than 6 tokens or with a
\* non-numeric token contributes no level
C26_SortedInRange ==
    Parsed =>
        /\ SortedInRange(ret)
        /\ Len(ret) <= Cardinality(FullNumericLines(arg))

\* every data line has a token at each column the header names
ColumnsPresent(lines) ==
    \A k \in FullNumericLines(lines) :
        headerIndex(lines) # 0 /\ k > headerIndex(lines) =>
            \A col \in DOMAIN ColumnNames :
                columnOf(lines[headerIndex(lines)], col, 0) < Len(lines[k])

\* C26: the same holds of every text without header, and of every text whose
\* data lines have a token at each column of the header
C26_SortedInRangeColumnsPresent ==
    Parsed /\ ColumnsPresent(arg) =>
        /\ SortedInRange(ret)
        /\ Len(ret) <= Cardinality(FullNumericLines(arg))

\* C26: a level is returned whose pressure is undefined: the header names the
\* pressure column past the tokens of the data line
C26_UndefinedPressure ==
    /\ Parsed
    /\ \E k \in 1..Len(ret) : ret[k].pressure = Undefined

\* C26: levels given out of order come back sorted, and a line out of range
\* contributes none
C26_Sorted ==
    /\ Parsed
    /\ ColumnsPresent(arg)
    /\ Len(arg) = 3 /\ Len(ret) = 2
    /\ Number(arg[1][1]) = Num(500) /\ Number(arg[2][1]) = Num(40)
    /\ Number(arg[3][1]) = Num(1000)
    /\ ret[1].pressure = Num(1000) /\ ret[2].pressure = Num(500)

----------------------------------------------------------------------------
(* The fetch form (main.js).  Requests are numbered in the order they are
   issued; i counts them.  pc[r] is the position of request r: "idle" before
   it is issued, "fetch" while handleFetch waits for the response, "done"
   past processData, "failed" past the catch.  arg[r] holds the locals of the
   call, ret the page, parcel the animation frames requested and not yet
   run.  handleFetch waits twice on the success path (fetch, resp.text());
   nothing is written between the two, so they are one step here. *)

MaxFetches == 3

Requests == 1..MaxFetches

\* the content of the submit button in the page as loaded, and the one
\* handleFetch puts in its place
OrigContent == "Fetch Sounding"
Spinner == "<span class=\"spinner-inline\"></span> Fetching..."

FetchInit ==
    /\ levels = <<>>
    /\ parcel = <<>>
    /\ arg = [r \in Requests |-> Null]
    /\ pc = [r \in Requests |-> "idle"]
    /\ i = 0
    /\ cape = Num(0)
    /\ cin = Num(0)
    /\ lfc = Null
    /\ el = Null
    /\ ret = [innerHTML |-> OrigContent, disabled |-> FALSE, error |-> FALSE,
              landing |-> TRUE, shown |-> 0, diagrams |-> 0]

\* handleFetch up to its first await; valid: a date is selected and the
\* station resolves
handleFetchStart(valid) ==
    /\ i < MaxFetches
    /\ ret.landing
    /\ IF valid
       THEN /\ i' = i + 1
            /\ arg' = [arg EXCEPT ![i + 1] = [origContent |-> ret.innerHTML]]
            /\ ret' = [ret EXCEPT !.error = FALSE, !.innerHTML = Spinner, !.disabled = TRUE]
            /\ pc' = [pc EXCEPT ![i + 1] = "fetch"]
       ELSE /\ ret' = [ret EXCEPT !.error = TRUE]
            /\ UNCHANGED <<arg, pc, i>>
    /\ UNCHANGED <<levels, parcel, cape, cin, lfc, el>>

\* click on the submit button (a disabled button takes no click)
Click ==
    /\ ~ret.disabled
    /\ \E valid \in BOOLEAN : handleFetchStart(valid)

\* Enter in the station field
EnterKey == \E valid \in BOOLEAN : handleFetchStart(valid)

\* the response of request r is bad, or no data, or too few levels: catch
\* and finally
FetchFailed(r) ==
    /\ pc[r] = "fetch"
    /\ ret' = [ret EXCEPT !.error = TRUE, !.innerHTML = arg[r].origContent,
                          !.disabled = FALSE]
    /\ pc' = [pc EXCEPT ![r] = "failed"]
    /\ UNCHANGED <<levels, parcel, arg, i, cape, cin, lfc, el>>

\* the response of request r arrives with a sounding: processData (the
\* analysis is never null, the levels being 5 or more) and finally
FetchSucceeded(r) ==
    /\ pc[r] = "fetch"
    /\ ret' = [ret EXCEPT !.landing = FALSE, !.shown = r,
                          !.innerHTML = arg[r].origContent, !.disabled = FALSE]
    /\ parcel' = Append(parcel, r)
    /\ pc' = [pc EXCEPT ![r] = "done"]
    /\ UNCHANGED <<levels, arg, i, cape, cin, lfc, el>>

\* the animation frame processData asked for: setData of the two diagrams
AnimationFrame ==
    /\ parcel # <<>>
    /\ ret' = [ret EXCEPT !.diagrams = Head(parcel)]
    /\ parcel' = Tail(parcel)
    /\ UNCHANGED <<levels, arg, pc, i, cape, cin, lfc, el>>

\* the button "Fetch New Sounding"
showFetchLanding ==
    /\ ~ret.landing
    /\ ret' = [ret EXCEPT !.landing = TRUE]
    /\ UNCHANGED <<levels, parcel, arg, pc, i, cape, cin, lfc, el>>

FetchNext ==
    \/ Click
    \/ EnterKey
    \/ \E r \in Requests : FetchFailed(r)
    \/ \E r \in Requests : FetchSucceeded(r)
    \/ AnimationFrame
    \/ showFetchLanding

FetchSpec == FetchInit /\ [][FetchNext]_vars

\* every request issued has run to completion, and one was issued
AllCompleted == i >= 1 /\ \A r \in Requests : pc[r] # "fetch"

\* C27: once every fetch request issued has run to completion, the submit
\* button is enabled and shows its original content, not the spinner
C27_ButtonRestored ==
    AllCompleted => ~ret.disabled /\ ret.innerHTML = OrigContent

\* C27: once every fetch request issued has run to completion, the submit
\* button is enabled
C27_ButtonEnabled == AllCompleted => ~ret.disabled

\* C27: two requests have run to completion and the button shows the
\* spinner: the second was issued while the first was waiting, and took the
\* spinner for the original content
C27_SpinnerLeft ==
    /\ i = 2 /\ AllCompleted
    /\ arg[2].origContent = Spinner
    /\ ~ret.disabled /\ ret.innerHTML = Spinner

\* every request issued has succeeded and every frame has run
AllShown == i >= 1 /\ parcel = <<>> /\ \A r \in 1..i : pc[r] = "done"

\* C28: when fetches overlap, the sounding finally displayed (station bar,
\* badge, cards, diagrams) is that of the most recently issued request
C28_LatestRequestShown ==
    AllShown => ret.shown = i /\ ret.diagrams = i

\* C28: two requests have succeeded and the page shows the sounding of the
\* first: its response arrived last
C28_OlderRequestShown ==
    /\ i = 2 /\ AllShown
    /\ ret.shown = 1 /\ ret.diagrams = 1

----------------------------------------------------------------------------
(* The hodograph (hodograph.js).  levels is this.data (<<>> for null), i is
   this.hoverIdx, counted from 0 as in the code, and ret tells what the last
   draw and the last _emitHover read at this.data[this.hoverIdx]: "" when
   they returned before the read ("none"), the level, or "TypeError" when the
   read gave undefined and its wind was asked for. *)

\* two ascents, the last level of each more than 12 km above the surface
HodoSounding ==
    <<Level(1000, 100, 25, 20, 180, 10), Level(925, 800, 20, 15, 190, 15),
      Level(850, 1500, 15, 10, 200, 20), Level(700, 3100, 5, -5, 220, 30),
      Level(500, 5700, -15, -30, 240, 40), Level(400, 7300, -27, -40, 250, 50),
      Level(300, 9300, -42, -55, 260, 60), Level(150, 13700, -60, -70, 270, 70)>>

HodoSoundingCalm ==
    <<Level(950, 400, 18, 12, 90, 5), Level(900, 900, 15, 9, 100, 5),
      Level(800, 1900, 8, 2, 120, 10), Level(600, 4200, -8, -20, 150, 10),
      Level(400, 7200, -30, -45, 180, 15), Level(250, 10400, -52, -65, 200, 20),
      Level(200, 11800, -58, -70, 210, 22), Level(150, 13600, -62, -75, 220, 25)>>

MinLevels == 5

\* the soundings handed to setData: the first 5 levels or more of an ascent
HodoData ==
    { SubSeq(HodoSounding, 1, n) : n \in MinLevels..Len(HodoSounding) }
        \cup { SubSeq(HodoSoundingCalm, 1, n) : n \in MinLevels..Len(HodoSoundingCalm) }

\* where the mouse is: on the point of a wind of the ascent, or away from
\* every point by 20 px or more
MousePoints ==
    { [windDir |-> HodoSounding[k].windDir, windSpd |-> HodoSounding[k].windSpd] :
        k \in 1..Len(HodoSounding) }
        \cup { [windDir |-> HodoSoundingCalm[k].windDir,
                windSpd |-> HodoSoundingCalm[k].windSpd] : k \in 1..Len(HodoSoundingCalm) }
        \cup { [windDir |-> 0, windSpd |-> 0] }

RECURSIVE closestFrom(_, _, _)
\* the loop of _onMouseMove from index k on (from 0): it stops at the first
\* level more than 12000 m above the surface; the first level whose point is
\* under the mouse stays the closest
closestFrom(data, k, mouse) ==
    IF k >= Len(data) THEN -1
    ELSE IF data[k + 1].height - data[1].height > 12000 THEN -1
    ELSE IF data[k + 1].windDir = mouse.windDir /\ data[k + 1].windSpd = mouse.windSpd THEN k
    ELSE closestFrom(data, k + 1, mouse)

\* this.data[this.hoverIdx] and the use of its wind
hoverRead(data, idx) ==
    IF idx < 0 \/ data = <<>> THEN [read |-> "none", level |-> Null]
    ELSE IF idx < Len(data) THEN [read |-> "level", level |-> data[idx + 1]]
    ELSE [read |-> "TypeError", level |-> Null]

\* the read, but a stale index is taken for no hover
hoverReadChecked(data, idx) ==
    IF idx < 0 \/ data = <<>> \/ idx >= Len(data) THEN [read |-> "none", level |-> Null]
    ELSE [read |-> "level", level |-> data[idx + 1]]

HodoInit ==
    /\ levels = <<>>
    /\ parcel = <<>>
    /\ arg = Null
    /\ pc = "idle"
    /\ i = -1
    /\ cape = Num(0)
    /\ cin = Num(0)
    /\ lfc = Null
    /\ el = Null
    /\ ret = [drawn |-> hoverRead(<<>>, -1), info |-> hoverRead(<<>>, -1)]

\* setData(levels, analysis): the data are replaced and drawn
setData(data) ==
    /\ levels' = data
    /\ ret' = [ret EXCEPT !.drawn = hoverRead(data, i)]
    /\ UNCHANGED <<parcel, arg, pc, i, cape, cin, lfc, el>>

\* _onMouseMove: the closest level, draw, _emitHover
onMouseMove(mouse) ==
    /\ levels # <<>>
    /\ i' = closestFrom(levels, 0, mouse)
    /\ ret' = [drawn |-> hoverRead(levels, closestFrom(levels, 0, mouse)),
               info |-> hoverRead(levels, closestFrom(levels, 0, mouse))]
    /\ UNCHANGED <<levels, parcel, arg, pc, cape, cin, lfc, el>>

\* _onMouseLeave
onMouseLeave ==
    /\ i' = -1
    /\ ret' = [drawn |-> hoverRead(levels, -1), info |-> hoverRead(levels, -1)]
    /\ UNCHANGED <<levels, parcel, arg, pc, cape, cin, lfc, el>>

HodoNext ==
    \/ \E data \in HodoData : setData(data)
    \/ \E mouse \in MousePoints : onMouseMove(mouse)
    \/ onMouseLeave

HodoSpec == HodoInit /\ [][HodoNext]_vars

\* C29: after any sequence of setData, mouse-move and mouse-leave, hoverIdx
\* is -1 or an index into the current data, and neither _drawHover nor
\* _emitHover has read a level that does not exist
C29_HoverIdxValid ==
    /\ i = -1 \/ (0 <= i /\ i < Len(levels))
    /\ ret.drawn.read # "TypeError" /\ ret.info.read # "TypeError"

\* C29: setData has replaced the data by a shorter list while a level past
\* its end was hovered, and the draw of setData has read that level
C29_StaleHoverIdx ==
    /\ levels # <<>>
    /\ i >= Len(levels)
    /\ ret.drawn.read = "TypeError"

\* C29: right after a mouse-move or a mouse-leave the index is -1 or valid
C29_ValidAfterMouse ==
    [][(i' # i \/ ret'.info # ret.info) => (i' = -1 \/ (0 <= i' /\ i' < Len(levels')))]_vars

----------------------------------------------------------------------------
(* Parcel paths against the levels (analyzeSounding), on PipelineSpec *)

\* the pipeline has lifted its parcel
Lifted(variant) == pc[variant] # "lift"

\* the level of the profile at pressure p
LevelAt(lv, p) == lv[CHOOSE k \in 1..Len(lv) : lv[k].pressure = p]

\* the energy of a path pair from the own temperature and height of the two
\* levels, in 1/100 J/kg
OwnEnergy(lv, pt1, pt2) ==
    Energy(Buoyancy(CtoK(pt1.temp), CtoK(LevelAt(lv, pt1.pressure).temp))
             + Buoyancy(CtoK(pt2.temp), CtoK(LevelAt(lv, pt2.pressure).temp)),
           LevelAt(lv, pt2.pressure).height - LevelAt(lv, pt1.pressure).height)

RECURSIVE PositiveEnergy(_, _, _)
\* the positive energies of all the adjacent pairs of the path from pair k on
PositiveEnergy(lv, path, k) ==
    IF k > Len(path) - 1 THEN 0
    ELSE (IF OwnEnergy(lv, path[k], path[k + 1]) > 0
          THEN OwnEnergy(lv, path[k], path[k + 1]) ELSE 0)
         + PositiveEnergy(lv, path, k + 1)

\* every point of the path is at a level, and the environment there is the
\* level's own
OnLevels(lv, path) ==
    \A k \in 1..Len(path) :
        /\ \E j \in 1..Len(lv) : lv[j].pressure = path[k].pressure
        /\ interpAtPressure(lv, Num(path[k].pressure), "temp")
               = Num(LevelAt(lv, path[k].pressure).temp)
        /\ heightAtPressure(lv, Num(path[k].pressure))
               = Num(LevelAt(lv, path[k].pressure).height)

\* C30: inside analyzeSounding every pressure of a parcel path is the
\* pressure of a level; on a profile of strictly decreasing pressure the
\* environment temperature at each path point is the level's own, no pair is
\* skipped, and every adjacent pair contributes its energy
C30_PathOnLevels ==
    \A variant \in Variants :
        Lifted(variant) /\ Decreasing(levels) =>
            /\ OnLevels(levels, parcel[variant].parcel)
            /\ \A k \in 1..(Len(parcel[variant].parcel) - 1) :
                  ~pairEnergy(levels, parcel[variant].parcel[k],
                              parcel[variant].parcel[k + 1]).skip
            /\ pc[variant] = "done" =>
                  ret[variant].cape
                      = Num(PositiveEnergy(levels, parcel[variant].parcel, 1))

\* C30: the three paths are integrated over a profile of strictly
\* decreasing pressure, the surface-based one at every level and with CAPE
C30_Witness ==
    /\ \A variant \in Variants : pc[variant] = "done"
    /\ Decreasing(levels)
    /\ Len(parcel["sb"].parcel) = Len(levels)
    /\ ret["sb"].cape.v > 0

=============================================================================
